---- MODULE Spec2Model ----
(***************************************************************************)
(* NexaFiscal: the invoice processing pipeline (workflow_graph.py and its  *)
(* agents), the batch queue around it (api/main.py, batch_service.py,      *)
(* repository.py), the tax schema registry (tax_config_loader.py), the     *)
(* access-key validator (validators.py) and the aggregate analysis         *)
(* (analysis_agent.py).                                                    *)
(*                                                                         *)
(* The specifications that share the module:                               *)
(*   Spec               one process_invoice run after another              *)
(*   SpecQueue          the batch worker, the queue and retry_failed       *)
(*   SpecBackground     SpecQueue with the tasks of POST .../process       *)
(*   SpecRegistry       the TaxConfig singleton, its file and its backups  *)
(*   SpecRegistrySteps  a mutation statement by statement, with a reader   *)
(*                      of the file and a crash                            *)
(*   SpecExtraction     the registry as the extraction of two processes    *)
(*                      sees it                                            *)
(*   SpecValidator      validate_nfe_key on edited keys                    *)
(*   SpecItems          the item check of validate on float amounts        *)
(*   SpecAnalysis       analyze_multiple_documents on record sets          *)
(*   SpecQueueLive      SpecQueue with raising status updates and a fair   *)
(*                      worker                                             *)
(*   SpecInvoke         a fair pipeline run from any initial status        *)
(***************************************************************************)
EXTENDS Integers, Sequences, FiniteSets, TLC

VARIABLES
    \* ---- pipeline (workflow_graph.py) ----
    input,          \* the file handed to process_invoice
    state,          \* the WorkflowState threaded through the graph
    pc,             \* the node the graph runs next, "END", "raised" or "idle"
    invoked,        \* the nodes invoked in the current run, in order
    \* ---- batch queue (api/main.py, batch_service.py, repository.py) ----
    queue,          \* processing_queue rows, by id
    documents,      \* rows of the documents table: the queue id each came from
    worker,         \* batch_worker's position: its fetched list and its local result
    runs,           \* how many times process_invoice ran for each queue item
    background,     \* the background tasks of POST /api/batch/{id}/process
    \* ---- tax schema registry (tax_config_loader.py) ----
    primary,        \* text of config/tax_config.json
    backups,        \* text of each config/tax_config.json.backup_<timestamp>
    self_config,    \* TaxConfig._config of the instance held by the admin page
    cache_filled,   \* get_tax_config's lru_cache holds that instance
    clock,          \* datetime.now(), in seconds
    last_op,        \* the last registry call: its arguments, result and pre-state
    mutation,       \* a mutation seen statement by statement: where it stands
    reader,         \* what another process last read from the primary file
    api_cache,      \* get_tax_config's lru_cache in the API server process
    extraction,     \* the last tax extraction: its keys and the registry then
    \* ---- access key validator (utils/validators.py) ----
    key,            \* the characters of the key handed to validate_nfe_key
    verdict,        \* what validate_nfe_key returned for it
    \* ---- line items (agents/validation_agent.py) ----
    itens,          \* extracted_data['itens'] handed to the item check
    item_check,     \* the warnings the item check appended for them
    \* ---- aggregate analysis (agents/analysis_agent.py) ----
    records,        \* the documents handed to analyze_multiple_documents
    report          \* what it returned for them

pipeline_vars == <<input, state, pc, invoked>>
queue_vars    == <<queue, documents, worker, runs, background>>
extraction_vars == <<api_cache, extraction>>
registry_vars == <<primary, backups, self_config, cache_filled, clock, last_op,
                   mutation, reader, api_cache, extraction>>
\* the variables of the stand-alone functions: validators, item check, analysis
validator_vars == <<key, verdict, itens, item_check, records, report>>
vars == <<input, state, pc, invoked, queue, documents, worker, runs, background,
          primary, backups, self_config, cache_filled, clock, last_op,
          mutation, reader, api_cache, extraction, key, verdict, itens, item_check,
          records, report>>

(***************************************************************************)
(* Input files.  A file is what the normalizer can learn from it: its      *)
(* extension, whether it can be read and parsed, and for XML the parsed    *)
(* tree (top-level key, whether the serialised tree mentions nfse, whether *)
(* the NFe tree-walk raises, and the fiscal content under infNFe).         *)
(***************************************************************************)
Extensions == {".xml", ".XML", ".pdf", ".jpg", ".jpeg", ".png", ".bmp", ".tiff", ".txt", ""}

lower(ext) == IF ext = ".XML" THEN ".xml" ELSE ext

get_file_type(ext) ==
    IF lower(ext) = ".xml" THEN "xml"
    ELSE IF lower(ext) = ".pdf" THEN "pdf"
    ELSE IF lower(ext) \in {".jpg", ".jpeg", ".png", ".bmp", ".tiff"} THEN "image"
    ELSE "unknown"

\* The content of a fiscal record, one value per rule group of the validator.
\* "nonobject"/"nonnumeric" only come from the oracle's JSON, never from the XML walk.
EmitenteValues     == {"absent", "valid", "invalid"}
DestinatarioValues == {"absent", "cnpj_valid", "cnpj_invalid", "cpf_valid", "cpf_invalid"}
ChaveValues        == {"absent", "valid", "invalid"}
TotaisValues       == {"absent", "positive", "nonpositive"}
ItensValues        == {"none", "consistent", "divergent"}

NoContent ==
    [emitente |-> "absent", destinatario |-> "absent", chave |-> "absent",
     totais |-> "absent", itens |-> "none"]

XmlContents ==
    [emitente : EmitenteValues, destinatario : {"absent", "cnpj_valid", "cpf_invalid"},
     chave : ChaveValues, totais : TotaisValues, itens : ItensValues]

OracleContents ==
    [emitente : {"absent", "valid", "invalid", "nonobject"},
     destinatario : {"absent", "cnpj_invalid", "cpf_valid"},
     chave : {"absent", "invalid"},
     totais : {"absent", "positive", "nonnumeric"},
     itens : {"none", "consistent", "nonnumeric"}]

NoTree == [root |-> "none", nfse |-> FALSE, walk |-> "ok", content |-> NoContent]

XmlTrees ==
    [root : {"nfeProc", "NFe"}, nfse : {FALSE}, walk : {"ok"}, content : XmlContents]
    \cup [root : {"nfeProc", "NFe"}, nfse : BOOLEAN, walk : {"raises"}, content : {NoContent}]
    \cup [root : {"cteProc", "CTe", "other"}, nfse : BOOLEAN, walk : {"ok"}, content : {NoContent}]

Files ==
    [ext : {".xml", ".XML"}, readable : {TRUE}, tree : XmlTrees, has_image : {FALSE}]
    \cup [ext : {".pdf"}, readable : {TRUE}, tree : {NoTree}, has_image : BOOLEAN]
    \cup [ext : {".jpg", ".jpeg", ".png", ".bmp", ".tiff"}, readable : {TRUE},
          tree : {NoTree}, has_image : {TRUE}]
    \cup [ext : Extensions, readable : {FALSE}, tree : {NoTree}, has_image : {FALSE}]
    \cup [ext : {".txt", ""}, readable : {TRUE}, tree : {NoTree}, has_image : {FALSE}]

NoFile == [ext |-> "", readable |-> FALSE, tree |-> NoTree, has_image |-> FALSE]

(***************************************************************************)
(* WorkflowState.  An empty dict is a record whose present field is FALSE. *)
(***************************************************************************)
EmptyProcessed ==
    [present |-> FALSE, success |-> FALSE, format |-> "none", error |-> "none",
     data |-> NoTree, image_base64 |-> FALSE]

EmptyClassification ==
    [present |-> FALSE, file_format |-> "none", document_type |-> "none"]

EmptyExtracted ==
    [present |-> FALSE, error |-> "none", fonte |-> "none", content |-> NoContent]

EmptyValidation ==
    [present |-> FALSE, is_valid |-> TRUE, errors |-> <<>>, warnings |-> <<>>]

initial_state(status) ==
    [processed_data |-> EmptyProcessed,
     classification |-> EmptyClassification,
     extracted_data |-> EmptyExtracted,
     validation     |-> EmptyValidation,
     status         |-> status,
     errors         |-> <<>>]

END == "END"
Nodes == {"process_file", "classify", "extract", "validate"}
NodeOrder == <<"process_file", "classify", "extract", "validate">>

(***************************************************************************)
(* utils/file_processor.py: process_xml, process_pdf, process_image.       *)
(* Each returns success False with str(e) as error when the file cannot be *)
(* read or parsed.                                                         *)
(***************************************************************************)
process_xml(file) ==
    IF file.readable
    THEN [present |-> TRUE, success |-> TRUE, format |-> "xml", error |-> "none",
          data |-> file.tree, image_base64 |-> FALSE]
    ELSE [present |-> TRUE, success |-> FALSE, format |-> "xml", error |-> "xml: str(e)",
          data |-> NoTree, image_base64 |-> FALSE]

process_pdf(file) ==
    IF file.readable
    THEN [present |-> TRUE, success |-> TRUE, format |-> "pdf", error |-> "none",
          data |-> NoTree, image_base64 |-> file.has_image]
    ELSE [present |-> TRUE, success |-> FALSE, format |-> "pdf",
          error |-> "Erro: Nao foi possivel extrair texto do PDF",
          data |-> NoTree, image_base64 |-> FALSE]

process_image(file) ==
    IF file.readable
    THEN [present |-> TRUE, success |-> TRUE, format |-> "image", error |-> "none",
          data |-> NoTree, image_base64 |-> TRUE]
    ELSE [present |-> TRUE, success |-> FALSE, format |-> "image", error |-> "image: str(e)",
          data |-> NoTree, image_base64 |-> FALSE]

UnsupportedProcessed ==
    [present |-> TRUE, success |-> FALSE, format |-> "none",
     error |-> "Formato nao suportado", data |-> NoTree, image_base64 |-> FALSE]

(***************************************************************************)
(* workflow_graph.py: process_file_node.                                   *)
(***************************************************************************)
process_file_node_noappend(st, file) ==
    LET file_type == get_file_type(file.ext)
        processed == IF file_type = "xml" THEN process_xml(file)
                     ELSE IF file_type = "pdf" THEN process_pdf(file)
                     ELSE IF file_type = "image" THEN process_image(file)
                     ELSE UnsupportedProcessed
    IN  [st EXCEPT !.processed_data = processed, !.status = "processed"]

process_file_node(st, file) ==
    LET file_type == get_file_type(file.ext)
        processed == IF file_type = "xml" THEN process_xml(file)
                     ELSE IF file_type = "pdf" THEN process_pdf(file)
                     ELSE IF file_type = "image" THEN process_image(file)
                     ELSE UnsupportedProcessed
        s1 == [st EXCEPT !.processed_data = processed, !.status = "processed"]
    IN  IF ~processed.success
        THEN [s1 EXCEPT !.errors = Append(st.errors, processed.error)]
        ELSE s1

(***************************************************************************)
(* agents/classification_agent.py.  The oracle's reply is the text it      *)
(* returned and the vocabulary tokens the lowercased text contains; "fail" *)
(* is a call that raised.                                                  *)
(***************************************************************************)
ClassifyReplies ==
    { [text |-> "NFe",          tokens |-> {"nfe"}],
      [text |-> "NFCe",         tokens |-> {"nfce"}],
      [text |-> "CTe",          tokens |-> {"cte"}],
      [text |-> "Cupom Fiscal", tokens |-> {"cupom"}],
      [text |-> "Outro",        tokens |-> {}] }

OracleFail == [text |-> "fail", tokens |-> {}]

CtorOutcomes == {"ok", "ValueError", "Exception"}

_classify_xml_nfse_first(st) ==
    LET xml_data == st.processed_data.data
    IN  IF xml_data.nfse THEN "NFSe"
        ELSE IF xml_data.root \in {"nfeProc", "NFe"} THEN "NFe"
        ELSE IF xml_data.root \in {"cteProc", "CTe"} THEN "CTe"
        ELSE "XML Fiscal"

_classify_xml(st) ==
    LET xml_data == st.processed_data.data
    IN  IF xml_data.root \in {"nfeProc", "NFe"} THEN "NFe"
        ELSE IF xml_data.root \in {"cteProc", "CTe"} THEN "CTe"
        ELSE IF xml_data.nfse THEN "NFSe"
        ELSE "XML Fiscal"

_classify_visual(st, reply) ==
    IF reply = OracleFail THEN "Erro na classificacao: str(e)"
    ELSE IF "nfe" \in reply.tokens /\ "nfce" \notin reply.tokens THEN "NFe"
    ELSE IF "nfce" \in reply.tokens \/ "consumidor" \in reply.tokens THEN "NFCe"
    ELSE IF "sat" \in reply.tokens THEN "SAT"
    ELSE IF "cte" \in reply.tokens \/ "transporte" \in reply.tokens THEN "CTe"
    ELSE IF "nfse" \in reply.tokens \/ "servico" \in reply.tokens THEN "NFSe"
    ELSE IF "cupom" \in reply.tokens THEN "Cupom Fiscal"
    ELSE reply.text

classify_failing_hard(st, file, reply) ==
    LET file_format == get_file_type(file.ext)
    IN  IF file_format \in {"pdf", "image"} /\ reply = OracleFail
        THEN [st EXCEPT !.errors = Append(st.errors, "Erro na classificacao: str(e)"),
                        !.status = "error"]
        ELSE [st EXCEPT !.classification =
                            [present |-> TRUE, file_format |-> file_format,
                             document_type |-> IF file_format = "xml"
                                               THEN _classify_xml(st) ELSE "unknown"],
                        !.status = "classified"]

classify(st, file, reply) ==
    LET file_format == get_file_type(file.ext)
        doc_type == IF file_format = "xml" THEN _classify_xml(st)
                    ELSE IF file_format \in {"pdf", "image"} THEN _classify_visual(st, reply)
                    ELSE "unknown"
    IN  [st EXCEPT !.classification = [present |-> TRUE, file_format |-> file_format,
                                       document_type |-> doc_type],
                   !.status = "classified"]

\* ctor: what ClassificationAgent() does (ValueError without GROQ_API_KEY).
classify_node(st, file, ctor, reply) ==
    IF ctor = "ok" THEN classify(st, file, reply)
    ELSE IF ctor = "ValueError"
    THEN [st EXCEPT !.errors = Append(st.errors, "Erro de configuracao: GROQ_API_KEY"),
                    !.status = "error"]
    ELSE [st EXCEPT !.errors = Append(st.errors, "Erro na classificacao: str(e)"),
                    !.status = "error"]

(***************************************************************************)
(* agents/extraction_agent.py.  The oracle's reply to the extraction       *)
(* prompt is a failure, text that is no JSON, JSON that is no object, or   *)
(* an object with some content.                                            *)
(***************************************************************************)
ExtractReplies ==
    [kind : {"fail", "garbage", "nondict"}, content : {NoContent}]
    \cup [kind : {"object"}, content : OracleContents]

_extract_from_xml(st) ==
    LET xml_data == st.processed_data.data
    IN  IF xml_data.root \notin {"nfeProc", "NFe"}
        THEN [present |-> TRUE, error |-> "none", fonte |-> "XML", content |-> NoContent]
        ELSE IF xml_data.walk = "raises"
        THEN [present |-> TRUE, error |-> "Erro ao extrair XML: str(e)", fonte |-> "none",
              content |-> NoContent]
        ELSE [present |-> TRUE, error |-> "none", fonte |-> "XML",
              content |-> xml_data.content]

_extract_from_visual(st, reply) ==
    IF reply.kind = "fail"
    THEN [present |-> TRUE, error |-> "Erro na extracao visual: str(e)", fonte |-> "none",
          content |-> NoContent]
    ELSE IF reply.kind = "garbage"
    THEN [present |-> TRUE, error |-> "Falha ao extrair JSON", fonte |-> "IA + OCR",
          content |-> NoContent]
    ELSE IF reply.kind = "nondict"
    THEN [present |-> TRUE, error |-> "Erro na extracao visual: str(e)", fonte |-> "none",
          content |-> NoContent]
    ELSE [present |-> TRUE, error |-> "none", fonte |-> "IA + OCR",
          content |-> reply.content]

extract_rewriting_classification(st, reply) ==
    LET file_format == st.classification.file_format
        extracted_data ==
            IF file_format = "xml" THEN _extract_from_xml(st)
            ELSE IF file_format \in {"pdf", "image"} THEN _extract_from_visual(st, reply)
            ELSE [present |-> TRUE, error |-> "Formato nao suportado", fonte |-> "none",
                  content |-> NoContent]
    IN  [st EXCEPT !.extracted_data = extracted_data, !.status = "extracted",
                   !.classification.document_type = extracted_data.fonte]

extract(st, reply) ==
    LET file_format == st.classification.file_format
        extracted_data ==
            IF file_format = "xml" THEN _extract_from_xml(st)
            ELSE IF file_format \in {"pdf", "image"} THEN _extract_from_visual(st, reply)
            ELSE [present |-> TRUE, error |-> "Formato nao suportado", fonte |-> "none",
                  content |-> NoContent]
    IN  [st EXCEPT !.extracted_data = extracted_data, !.status = "extracted"]

extract_node(st, ctor, reply) ==
    IF ctor = "ok" THEN extract(st, reply)
    ELSE IF ctor = "ValueError"
    THEN [st EXCEPT !.errors = Append(st.errors, "Erro de configuracao: GROQ_API_KEY"),
                    !.status = "error"]
    ELSE [st EXCEPT !.errors = Append(st.errors, "Erro na extracao: str(e)"),
                    !.status = "error"]

(***************************************************************************)
(* agents/validation_agent.py: the five rule groups, in order.             *)
(***************************************************************************)
validate_raises(c) ==
    \/ c.emitente = "nonobject"
    \/ c.totais = "nonnumeric"
    \/ c.itens = "nonnumeric"

validation_errors_until_first(c) ==
    IF c.emitente = "invalid" THEN <<"CNPJ do emitente invalido">>
    ELSE IF c.destinatario = "cnpj_invalid" THEN <<"CNPJ do destinatario invalido">>
    ELSE IF c.destinatario = "cpf_invalid" THEN <<"CPF do destinatario invalido">>
    ELSE IF c.chave = "invalid" THEN <<"Chave de acesso invalida">>
    ELSE <<>>

validation_errors(c) ==
    (IF c.emitente = "invalid" THEN <<"CNPJ do emitente invalido">> ELSE <<>>)
    \o (IF c.destinatario = "cnpj_invalid" THEN <<"CNPJ do destinatario invalido">>
        ELSE IF c.destinatario = "cpf_invalid" THEN <<"CPF do destinatario invalido">>
        ELSE <<>>)
    \o (IF c.chave = "invalid" THEN <<"Chave de acesso invalida">> ELSE <<>>)

validation_warnings(c) ==
    (IF c.emitente = "absent" THEN <<"CNPJ do emitente nao encontrado">> ELSE <<>>)
    \o (IF c.destinatario = "absent" THEN <<"CNPJ/CPF do destinatario nao encontrado">>
        ELSE <<>>)
    \o (IF c.chave = "absent" THEN <<"Chave de acesso nao encontrada">> ELSE <<>>)
    \o (IF c.totais = "absent" THEN <<"Totais nao encontrados">>
        ELSE IF c.totais = "nonpositive"
        THEN <<"Valor total da nota e zero ou negativo",
               "Valor dos produtos e zero ou negativo">>
        ELSE <<>>)
    \o (IF c.itens = "none" THEN <<"Nenhum item encontrado na nota">>
        ELSE IF c.itens = "divergent" THEN <<"Item 1: divergencia no calculo">>
        ELSE <<>>)

validation_is_valid_strict(c) ==
    /\ c.emitente \notin {"invalid", "absent"}
    /\ c.destinatario \notin {"cnpj_invalid", "cpf_invalid"}
    /\ c.chave # "invalid"

\* validations['is_valid']: True at first, set to False in the three
\* branches that find an invalid identifier.
validation_is_valid(c) ==
    /\ c.emitente # "invalid"
    /\ c.destinatario \notin {"cnpj_invalid", "cpf_invalid"}
    /\ c.chave # "invalid"

validate(st) ==
    LET c == st.extracted_data.content
    IN  [st EXCEPT !.validation = [present  |-> TRUE,
                                   is_valid |-> validation_is_valid(c),
                                   errors   |-> validation_errors(c),
                                   warnings |-> validation_warnings(c)],
                   !.status = "validated"]

(***************************************************************************)
(* workflow_graph.py: the router on every conditional edge.                *)
(***************************************************************************)
should_continue_ignoring_errors(st) ==
    IF st.status = "processed" THEN "classify"
    ELSE IF st.status = "classified" THEN "extract"
    ELSE IF st.status = "extracted" THEN "validate"
    ELSE END

should_continue_skipping_extract(st) ==
    IF st.errors # <<>> THEN END
    ELSE IF st.status = "processed" THEN "classify"
    ELSE IF st.status = "classified" THEN "validate"
    ELSE IF st.status = "extracted" THEN "validate"
    ELSE END

should_continue(st) ==
    IF st.errors # <<>> THEN END
    ELSE IF st.status = "processed" THEN "classify"
    ELSE IF st.status = "classified" THEN "extract"
    ELSE IF st.status = "extracted" THEN "validate"
    ELSE IF st.status = "validated" THEN END
    ELSE END

(***************************************************************************)
(* What one invocation of a node can produce, over everything its          *)
(* collaborators (the API key, the oracle) can do: the new state, or the   *)
(* exception that leaves the node.                                         *)
(***************************************************************************)
NodeResults(node, st, file) ==
    IF node = "process_file"
    THEN {[state |-> process_file_node(st, file), raised |-> FALSE]}
    ELSE IF node = "classify"
    THEN {[state |-> classify_node(st, file, ctor, reply), raised |-> FALSE] :
              ctor \in CtorOutcomes, reply \in ClassifyReplies \cup {OracleFail}}
    ELSE IF node = "extract"
    THEN {[state |-> extract_node(st, ctor, reply), raised |-> FALSE] :
              ctor \in CtorOutcomes, reply \in ExtractReplies}
    ELSE IF validate_raises(st.extracted_data.content)
    THEN {[state |-> st, raised |-> TRUE]}
    ELSE {[state |-> validate(st), raised |-> FALSE]}

\* langgraph's default recursion_limit: invoke raises GraphRecursionError beyond it.
RecursionLimit == 25

RECURSIVE GraphRun(_, _, _, _)
GraphRun(node, st, file, fuel) ==
    IF node = END THEN {[state |-> st, raised |-> FALSE]}
    ELSE IF fuel = 0 THEN {[state |-> st, raised |-> TRUE]}
    ELSE UNION { IF r.raised THEN {r}
                 ELSE GraphRun(should_continue(r.state), r.state, file, fuel - 1) :
                 r \in NodeResults(node, st, file) }

\* Every result workflow.invoke(initial_state) can return or raise for a file.
InvokeResults(file) ==
    GraphRun("process_file", initial_state("pending"), file, RecursionLimit)

(***************************************************************************)
(* workflow_graph.py: process_invoice and the compiled graph.  The graph   *)
(* runs the node pc names, then asks should_continue where to go.          *)
(* validate_node has no except clause: what validate raises leaves         *)
(* workflow.invoke.                                                        *)
(***************************************************************************)
Advance(st) ==
    /\ state' = st
    /\ pc' = should_continue(st)
    /\ invoked' = Append(invoked, pc)
    /\ UNCHANGED <<input, queue_vars, registry_vars, validator_vars>>

process_invoice(file) ==
    /\ pc = "idle"
    /\ input' = file
    /\ state' = initial_state("pending")
    /\ pc' = "process_file"
    /\ invoked' = <<>>
    /\ UNCHANGED <<queue_vars, registry_vars, validator_vars>>

StartRun == \E file \in Files : process_invoice(file)

\* workflow.invoke on an initial state with any status: process_invoice
\* passes 'pending', process_document_node of chat_workflow.py passes ''.
InitialStatuses ==
    {"", "pending", "processed", "classified", "extracted", "validated", "error"}

workflow_invoke(file, status) ==
    /\ pc = "idle"
    /\ input' = file
    /\ state' = initial_state(status)
    /\ pc' = "process_file"
    /\ invoked' = <<>>
    /\ UNCHANGED <<queue_vars, registry_vars, validator_vars>>

RunProcessFile ==
    /\ pc = "process_file"
    /\ \E r \in NodeResults("process_file", state, input) : Advance(r.state)

RunClassify ==
    /\ pc = "classify"
    /\ \E r \in NodeResults("classify", state, input) : Advance(r.state)

RunExtract ==
    /\ pc = "extract"
    /\ \E r \in NodeResults("extract", state, input) : Advance(r.state)

RunValidate ==
    /\ pc = "validate"
    /\ \E r \in NodeResults("validate", state, input) :
          IF r.raised
          THEN /\ pc' = "raised"
               /\ invoked' = Append(invoked, pc)
               /\ UNCHANGED <<state, input, queue_vars, registry_vars, validator_vars>>
          ELSE Advance(r.state)

PipelineInit ==
    /\ input = NoFile
    /\ state = initial_state("pending")
    /\ pc = "idle"
    /\ invoked = <<>>

(***************************************************************************)
(* The batch queue: database/repository.py (ProcessingQueueRepository),    *)
(* services/batch_service.py (BatchService) and the worker of api/main.py. *)
(* A row keeps the columns the code reads or writes; None is "None" for    *)
(* error_message and 0 for document_id.                                    *)
(***************************************************************************)
MaxItems == 2          \* rows the model lets create_batch add in all
MaxRuns == 4           \* retry_failed is no longer called for an item run this often
WorkerLimit == 5       \* batch_worker: get_next_pending(limit=5)
RetryCeiling == 3      \* retry_failed: item.attempts < 3

TxtFile == [ext |-> ".txt", readable |-> TRUE, tree |-> NoTree, has_image |-> FALSE]
PdfFile == [ext |-> ".pdf", readable |-> TRUE, tree |-> NoTree, has_image |-> TRUE]
BrokenXmlFile ==
    [ext |-> ".xml", readable |-> TRUE, has_image |-> FALSE,
     tree |-> [root |-> "NFe", nfse |-> FALSE, walk |-> "raises", content |-> NoContent]]
GoodXmlFile ==
    [ext |-> ".xml", readable |-> TRUE, has_image |-> FALSE,
     tree |-> [root |-> "nfeProc", nfse |-> FALSE, walk |-> "ok",
               content |-> [emitente |-> "valid", destinatario |-> "cnpj_valid",
                            chave |-> "valid", totais |-> "positive",
                            itens |-> "consistent"]]]

\* The files the model uploads in batches.
QueueFiles == {TxtFile, PdfFile, BrokenXmlFile, GoodXmlFile}

ItemIds == 1..Len(queue)

\* ProcessingQueueRepository.create: one new row, pending, attempts 0.
create(batch_id, file) ==
    [batch_id |-> batch_id, file |-> file, status |-> "pending",
     error_message |-> "None", document_id |-> 0, attempts |-> 0]

\* BatchService.create_batch: a fresh batch id and one row per file.
RECURSIVE create_rows(_, _)
create_rows(batch_id, files) ==
    IF files = <<>> THEN <<>>
    ELSE <<create(batch_id, Head(files))>> \o create_rows(batch_id, Tail(files))

BatchIds == { queue[i].batch_id : i \in ItemIds }

\* ProcessingQueueRepository.get_pending: pending rows, oldest first, at most limit.
RECURSIVE pending_from(_)
pending_from(i) ==
    IF i > Len(queue) THEN <<>>
    ELSE (IF queue[i].status = "pending" THEN <<i>> ELSE <<>>) \o pending_from(i + 1)

get_pending(limit) ==
    LET all == pending_from(1)
    IN  SubSeq(all, 1, IF Len(all) < limit THEN Len(all) ELSE limit)

get_next_pending(limit) == get_pending(limit)

\* ProcessingQueueRepository.update_status: nothing happens for an unknown id.
update_status(q, queue_id, status, error_message, document_id) ==
    IF queue_id \in DOMAIN q
    THEN [q EXCEPT ![queue_id].status = status,
                   ![queue_id].error_message = error_message,
                   ![queue_id].document_id = document_id]
    ELSE q

mark_processing(q, queue_id) ==
    update_status(q, queue_id, "processing", q[queue_id].error_message,
                  q[queue_id].document_id)

mark_completed(q, queue_id, document_id) ==
    update_status(q, queue_id, "completed", q[queue_id].error_message, document_id)

mark_failed(q, queue_id, error_message) ==
    update_status(q, queue_id, "failed", error_message, q[queue_id].document_id)

\* BatchService.retry_failed: the rows of the batch it resets to pending.
retry_selects(q, batch_id, i) ==
    /\ q[i].batch_id = batch_id
    /\ q[i].status = "failed"
    /\ q[i].attempts < RetryCeiling

retry_failed(q, batch_id) ==
    [i \in DOMAIN q |->
        IF retry_selects(q, batch_id, i)
        THEN [q[i] EXCEPT !.status = "pending", !.error_message = "None"]
        ELSE q[i]]

\* extracted_data is an error record ({'error': ...}).
ExtractionFailed(st) == st.extracted_data.present /\ st.extracted_data.error # "none"

\* What process_queue_item keeps of workflow.invoke's outcome: the errors list,
\* the exception if one was raised, and the extracted_data it would save.
Outcome(r) ==
    [raised |-> r.raised, errors |-> r.state.errors,
     extraction_error |-> r.state.extracted_data.error,
     status |-> r.state.status]

NoOutcome == [raised |-> FALSE, errors |-> <<>>, extraction_error |-> "none",
              status |-> "pending"]

\* The outcomes of process_invoice for each uploaded file.
QueueOutcomes == [file \in QueueFiles |-> { Outcome(r) : r \in InvokeResults(file) }]

\* DocumentService.save_processed_document: the row it adds to documents.
save_processed_document(docs, queue_id, result) ==
    Append(docs, [queue_id |-> queue_id,
                  extraction_error |-> result.extraction_error,
                  processing_status |-> IF result.errors = <<>> THEN "completed"
                                        ELSE "failed"])

QueueInit ==
    /\ queue = <<>>
    /\ documents = <<>>
    /\ worker = [pc |-> "poll", items |-> <<>>, result |-> NoOutcome]
    /\ background = [pc |-> "idle", tasks |-> <<>>, result |-> NoOutcome, added |-> 0,
                     batch_id |-> 0]
    /\ runs = <<>>

(***************************************************************************)
(* api/main.py.  batch_worker and the HTTP endpoints share one event loop: *)
(* the worker yields only in its asyncio.sleep, so an endpoint runs only   *)
(* while the worker sleeps.                                                *)
(***************************************************************************)
\* POST /api/batch/upload -> BatchService.create_batch
CreateBatch ==
    /\ worker.pc = "sleep"
    /\ \E n \in 1..MaxItems : \E files \in [1..n -> QueueFiles] :
          /\ Len(queue) + n <= MaxItems
          /\ queue' = queue \o create_rows(Cardinality(BatchIds) + 1, files)
          /\ runs' = runs \o [k \in 1..n |-> [count |-> 0, extraction_failed |-> FALSE]]
    /\ UNCHANGED <<documents, worker, background, pipeline_vars, registry_vars, validator_vars>>

\* POST /api/batch/{batch_id}/retry -> BatchService.retry_failed
RetryFailed ==
    /\ worker.pc = "sleep"
    /\ \E b \in BatchIds :
          /\ \A i \in ItemIds : queue[i].batch_id = b => runs[i].count < MaxRuns
          /\ queue' = retry_failed(queue, b)
    /\ UNCHANGED <<documents, worker, runs, background, pipeline_vars, registry_vars, validator_vars>>

\* batch_worker: pending_items = BatchService.get_next_pending(limit=5)
Poll ==
    /\ worker.pc = "poll"
    /\ LET pending_items == get_next_pending(WorkerLimit)
       IN  worker' = IF pending_items = <<>>
                     THEN [worker EXCEPT !.pc = "sleep"]
                     ELSE [worker EXCEPT !.pc = "mark", !.items = pending_items]
    /\ UNCHANGED <<queue, documents, runs, background, pipeline_vars, registry_vars, validator_vars>>

\* batch_worker: await asyncio.sleep(5) returns
Wake ==
    /\ worker.pc = "sleep"
    /\ worker' = [worker EXCEPT !.pc = "poll"]
    /\ UNCHANGED <<queue, documents, runs, background, pipeline_vars, registry_vars, validator_vars>>

\* process_queue_item: BatchService.mark_processing(queue_item.id)
MarkProcessing ==
    /\ worker.pc = "mark"
    /\ queue' = mark_processing(queue, Head(worker.items))
    /\ worker' = [worker EXCEPT !.pc = "invoke"]
    /\ UNCHANGED <<documents, runs, background, pipeline_vars, registry_vars, validator_vars>>

\* process_queue_item: result = process_invoice(file_path, filename)
InvokePipeline ==
    /\ worker.pc = "invoke"
    /\ LET id == Head(worker.items)
       IN  \E result \in QueueOutcomes[queue[id].file] :
              /\ worker' = [worker EXCEPT !.pc = "finish", !.result = result]
              /\ runs' = [runs EXCEPT ![id] = [count |-> runs[id].count + 1,
                                               extraction_failed |->
                                                   result.extraction_error # "none"]]
    /\ UNCHANGED <<queue, documents, background, pipeline_vars, registry_vars, validator_vars>>

\* process_queue_item: mark_failed on errors or on an exception, else save the
\* document and mark_completed; then batch_worker moves to the next fetched item.
FinishItem ==
    /\ worker.pc = "finish"
    /\ LET id == Head(worker.items)
           result == worker.result
           rest == Tail(worker.items)
           after == [worker EXCEPT !.pc = IF rest = <<>> THEN "poll" ELSE "mark",
                                   !.items = rest, !.result = NoOutcome]
       IN  /\ worker' = after
           /\ IF result.raised
              THEN /\ queue' = mark_failed(queue, id, <<"str(e)">>)
                   /\ UNCHANGED documents
              ELSE IF result.errors # <<>>
              THEN /\ queue' = mark_failed(queue, id, result.errors)
                   /\ UNCHANGED documents
              ELSE \/ /\ documents' = save_processed_document(documents, id, result)
                      /\ queue' = mark_completed(queue, id, Len(documents) + 1)
                   \/ /\ queue' = mark_failed(queue, id, <<"str(e)">>)
                      /\ UNCHANGED documents
    /\ UNCHANGED <<runs, background, pipeline_vars, registry_vars, validator_vars>>

\* process_queue_item when the status update raises as well: mark_failed in
\* the except clause raises (after an exception of the pipeline, of the save
\* or of mark_completed, or after mark_failed in the try block raised), the
\* exception reaches batch_worker's except, which prints it and goes on.
FinishItemRaising ==
    /\ worker.pc = "finish"
    /\ LET id == Head(worker.items)
           result == worker.result
           rest == Tail(worker.items)
       IN  /\ worker' = [worker EXCEPT !.pc = IF rest = <<>> THEN "poll" ELSE "mark",
                                       !.items = rest, !.result = NoOutcome]
           /\ \/ UNCHANGED documents
              \/ /\ ~result.raised
                 /\ result.errors = <<>>
                 /\ documents' = save_processed_document(documents, id, result)
    /\ UNCHANGED <<queue, runs, background, pipeline_vars, registry_vars, validator_vars>>

(***************************************************************************)
(* api/main.py: POST /api/batch/{batch_id}/process.  The endpoint runs on  *)
(* the event loop; the tasks it adds are process_queue_item calls that     *)
(* Starlette runs one after another in a thread pool, alongside the        *)
(* worker.                                                                 *)
(***************************************************************************)
MaxTasks == 2          \* background tasks the model lets the endpoint add in all
TaskLimit == 10        \* start_batch_processing: pending_items[:10]
MaxRetriedRuns == 2    \* runs of an item after which the model stops retrying

\* status['pending'] of BatchService.get_batch_status(batch_id)
pending_count(batch_id) ==
    Cardinality({i \in ItemIds : queue[i].batch_id = batch_id
                                   /\ queue[i].status = "pending"})

\* The loop over pending_items[:10]: each turn asks get_next_pending(limit=1)
\* and adds a task for the row it returns.
StartBatchProcessing ==
    /\ worker.pc = "sleep"
    /\ \E b \in BatchIds :
          LET n == IF pending_count(b) < TaskLimit THEN pending_count(b) ELSE TaskLimit
              pending_item == get_next_pending(1)
          IN  /\ n > 0
              /\ background.added + n <= MaxTasks
              /\ background' = [background EXCEPT
                                   !.tasks = @ \o [k \in 1..n |-> pending_item[1]],
                                   !.added = @ + n,
                                   !.batch_id = b]
    /\ UNCHANGED <<queue, documents, worker, runs, pipeline_vars, registry_vars, validator_vars>>

\* The next task starts: BatchService.mark_processing(queue_item.id)
TaskMarkProcessing ==
    /\ worker.pc = "sleep"
    /\ background.pc = "idle"
    /\ background.tasks # <<>>
    /\ queue' = mark_processing(queue, Head(background.tasks))
    /\ background' = [background EXCEPT !.pc = "invoke"]
    /\ UNCHANGED <<documents, worker, runs, pipeline_vars, registry_vars, validator_vars>>

\* The task's result = process_invoice(file_path, filename)
TaskInvokePipeline ==
    /\ background.pc = "invoke"
    /\ LET id == Head(background.tasks)
       IN  \E result \in QueueOutcomes[queue[id].file] :
              /\ background' = [background EXCEPT !.pc = "finish", !.result = result]
              /\ runs' = [runs EXCEPT ![id] = [count |-> runs[id].count + 1,
                                               extraction_failed |->
                                                   result.extraction_error # "none"]]
    /\ UNCHANGED <<queue, documents, worker, pipeline_vars, registry_vars, validator_vars>>

\* The task's mark_failed or save and mark_completed; the next task is due.
TaskFinish ==
    /\ background.pc = "finish"
    /\ LET id == Head(background.tasks)
           result == background.result
       IN  /\ background' = [background EXCEPT !.pc = "idle", !.tasks = Tail(@),
                                                 !.result = NoOutcome]
           /\ IF result.raised
              THEN /\ queue' = mark_failed(queue, id, <<"str(e)">>)
                   /\ UNCHANGED documents
              ELSE IF result.errors # <<>>
              THEN /\ queue' = mark_failed(queue, id, result.errors)
                   /\ UNCHANGED documents
              ELSE \/ /\ documents' = save_processed_document(documents, id, result)
                      /\ queue' = mark_completed(queue, id, Len(documents) + 1)
                   \/ /\ queue' = mark_failed(queue, id, <<"str(e)">>)
                      /\ UNCHANGED documents
    /\ UNCHANGED <<worker, runs, pipeline_vars, registry_vars, validator_vars>>

(***************************************************************************)
(* utils/tax_config_loader.py: the tax schema registry.                    *)
(*                                                                         *)
(* A tax definition is a record id / name / enabled; enabled is "true",    *)
(* "false" or "absent" (the key is missing from the JSON object).  The     *)
(* configuration is the taxes list plus metadata.change_history and        *)
(* metadata.last_updated.  A file is the sequence of tokens json.dump      *)
(* writes, and json.load parses that sequence back.                        *)
(***************************************************************************)
MaxHistory == 3     \* successful mutations followed in one behaviour
MaxClock == 1       \* seconds the clock advances in one behaviour
SecondsPerDay == 2  \* length of a day, in clock seconds

TaxIds == {"icms", "ipi"}
TaxNames == {"IVA"}
NoTax == [id |-> "", name |-> "", enabled |-> "absent"]
NoEntry == [date |-> 0, change |-> [verb |-> "", name |-> ""], author |-> ""]

\* The dictionaries the admin page builds for add_tax and update_tax.
TaxInputs == [id : TaxIds, name : TaxNames, enabled : {"true", "false"}]

InitialConfig ==
    [taxes |-> <<[id |-> "icms", name |-> "ICMS", enabled |-> "absent"]>>,
     change_history |-> <<>>,
     last_updated |-> 0]

Tok(kind, tax, entry) == [kind |-> kind, tax |-> tax, entry |-> entry]

\* json.dump(self._config, f): the tokens of the document, in order.
json_dump(config) ==
    <<Tok("{", NoTax, NoEntry)>>
    \o [i \in 1..Len(config.taxes) |-> Tok("tax", config.taxes[i], NoEntry)]
    \o <<Tok("|", NoTax, NoEntry)>>
    \o [i \in 1..Len(config.change_history) |->
            Tok("entry", NoTax, config.change_history[i])]
    \o <<Tok("updated", NoTax, [NoEntry EXCEPT !.date = config.last_updated])>>
    \o <<Tok("}", NoTax, NoEntry)>>

\* json.load(f): the configuration a text parses to, or JSONDecodeError.
json_load(text) ==
    LET n == Len(text)
        bars == {p \in 1..n : text[p].kind = "|"}
        bar == CHOOSE p \in bars : TRUE
        wellformed ==
            /\ n >= 4
            /\ text[1].kind = "{"
            /\ text[n].kind = "}"
            /\ text[n - 1].kind = "updated"
            /\ Cardinality(bars) = 1
            /\ \A p \in 2..(bar - 1) : text[p].kind = "tax"
            /\ \A p \in (bar + 1)..(n - 2) : text[p].kind = "entry"
            /\ bar \in 2..(n - 2)
    IN  IF wellformed
        THEN [ok |-> TRUE,
              config |-> [taxes |-> [i \in 1..(bar - 2) |-> text[i + 1].tax],
                          change_history |->
                              [i \in 1..(n - 2 - bar) |-> text[bar + i].entry],
                          last_updated |-> text[n - 1].entry.date]]
        ELSE [ok |-> FALSE, config |-> InitialConfig]

\* TaxConfig._load_config: ok = FALSE is the ValueError it raises.
_load_config(text) == json_load(text)

\* tax.get('enabled', True)
is_enabled(tax) == tax.enabled # "false"

get_all_taxes(config, enabled_only) ==
    IF enabled_only THEN SelectSeq(config.taxes, is_enabled) ELSE config.taxes

\* The first definition with this id, or NoTax for None.
get_tax_by_id(config, tax_id) ==
    LET taxes == get_all_taxes(config, FALSE)
        hits == {i \in 1..Len(taxes) : taxes[i].id = tax_id}
    IN  IF hits = {} THEN NoTax
        ELSE taxes[CHOOSE i \in hits : \A j \in hits : i <= j]

\* strftime('%Y-%m-%d') of a clock value.
strftime_date(now) == now \div SecondsPerDay

\* shutil.copy2(config_path, config_path + ".backup_" + timestamp): the
\* timestamp has one-second resolution, so a backup taken in the same second
\* replaces the earlier one.
_create_backup(file, files, now) ==
    [t \in DOMAIN files \cup {now} |-> IF t = now THEN file ELSE files[t]]

\* open(config_path, 'w') and json.dump: the new text of the primary file.
_save_config(config) == json_dump(config)

_add_change_to_history_noappend(config, change_description, now) ==
    [config EXCEPT !.last_updated = strftime_date(now)]

_add_change_to_history(config, change_description, now) ==
    [config EXCEPT
        !.change_history = Append(@, [date |-> now,
                                      change |-> change_description,
                                      author |-> "user"]),
        !.last_updated = strftime_date(now)]

\* What a registry call leaves in last_op: the call, its return value and
\* the registry as it was when the call started.
Call(op, tax_id, tax_data, ret) ==
    [op |-> op, tax_id |-> tax_id, tax_data |-> tax_data, ret |-> ret,
     before_config |-> self_config,
     before_primary |-> primary,
     before_backups |-> backups]

NoCall ==
    [op |-> "none", tax_id |-> "", tax_data |-> NoTax, ret |-> "",
     before_config |-> InitialConfig,
     before_primary |-> json_dump(InitialConfig),
     before_backups |-> <<>>]

\* No mutation is under way; nothing has been read by another process.
NoMutation ==
    [pc |-> "idle", op |-> "none", tax_id |-> "", tax_data |-> NoTax,
     timestamp |-> 0, pre_config |-> InitialConfig,
     pre_primary |-> json_dump(InitialConfig)]

NoRead ==
    [loaded |-> FALSE, ok |-> TRUE, config |-> InitialConfig,
     old |-> InitialConfig, new |-> InitialConfig]

\* No tax extraction has run.
NoExtraction ==
    [done |-> FALSE, process |-> "", source |-> "", read |-> FALSE, error |-> FALSE,
     keys |-> {}, enabled_at |-> {}, history_len |-> 0]

RegistryInit ==
    /\ primary = json_dump(InitialConfig)
    /\ backups = <<>>
    /\ self_config = InitialConfig
    /\ cache_filled = FALSE
    /\ clock = 0
    /\ last_op = NoCall
    /\ mutation = NoMutation
    /\ reader = NoRead
    /\ api_cache = [filled |-> FALSE, config |-> InitialConfig]
    /\ extraction = NoExtraction

\* The tail every mutation shares once it has changed self._config:
\* _add_change_to_history, _save_config, reload, cache_clear.  The backup is
\* taken first, from the primary file as it still is.
Persist(changed, change_description, call) ==
    LET logged == _add_change_to_history(changed, change_description, clock)
        saved == _save_config(logged)
    IN  /\ Len(self_config.change_history) < MaxHistory
        /\ backups' = _create_backup(primary, backups, clock)
        /\ primary' = saved
        /\ self_config' = _load_config(saved).config
        /\ cache_filled' = FALSE
        /\ last_op' = call

Refuse(call) ==
    /\ last_op' = call
    /\ UNCHANGED <<primary, backups, self_config, cache_filled>>

\* get_tax_config(): the cached instance, or a new TaxConfig() read from
\* the primary file.
get_tax_config ==
    /\ ~cache_filled
    /\ mutation.pc = "idle"
    /\ _load_config(primary).ok
    /\ self_config' = _load_config(primary).config
    /\ cache_filled' = TRUE
    /\ UNCHANGED <<primary, backups, clock, last_op, mutation, reader,
                   pipeline_vars, queue_vars, extraction_vars, validator_vars>>

add_tax_unchecked(tax_data) ==
    /\ cache_filled
    /\ Persist([self_config EXCEPT !.taxes = Append(@, tax_data)],
               [verb |-> "adicionado", name |-> tax_data.name],
               Call("add_tax", "", tax_data, "True"))
    /\ UNCHANGED <<clock, mutation, reader, pipeline_vars, queue_vars, extraction_vars, validator_vars>>

add_tax(tax_data) ==
    /\ cache_filled
    /\ IF get_tax_by_id(self_config, tax_data.id) # NoTax
       THEN Refuse(Call("add_tax", "", tax_data, "False"))
       ELSE Persist([self_config EXCEPT !.taxes = Append(@, tax_data)],
                    [verb |-> "adicionado", name |-> tax_data.name],
                    Call("add_tax", "", tax_data, "True"))
    /\ UNCHANGED <<clock, mutation, reader, pipeline_vars, queue_vars, extraction_vars, validator_vars>>

update_tax(tax_id, updated_data) ==
    LET taxes == self_config.taxes
        hits == {i \in 1..Len(taxes) : taxes[i].id = tax_id}
        first == CHOOSE i \in hits : \A j \in hits : i <= j
    IN  /\ cache_filled
        /\ IF hits # {}
           THEN Persist([self_config EXCEPT !.taxes[first] = updated_data],
                        [verb |-> "atualizado", name |-> updated_data.name],
                        Call("update_tax", tax_id, updated_data, "True"))
           ELSE Refuse(Call("update_tax", tax_id, updated_data, "False"))
        /\ UNCHANGED <<clock, mutation, reader, pipeline_vars, queue_vars, extraction_vars, validator_vars>>

delete_tax(tax_id) ==
    LET tax == get_tax_by_id(self_config, tax_id)
        keep(t) == t.id # tax_id
    IN  /\ cache_filled
        /\ IF tax = NoTax
           THEN Refuse(Call("delete_tax", tax_id, NoTax, "False"))
           ELSE Persist([self_config EXCEPT !.taxes = SelectSeq(@, keep)],
                        [verb |-> "removido", name |-> tax.name],
                        Call("delete_tax", tax_id, NoTax, "True"))
        /\ UNCHANGED <<clock, mutation, reader, pipeline_vars, queue_vars, extraction_vars, validator_vars>>

toggle_tax_status(tax_id) ==
    LET taxes == self_config.taxes
        hits == {i \in 1..Len(taxes) : taxes[i].id = tax_id}
        first == CHOOSE i \in hits : \A j \in hits : i <= j
        new_status == ~is_enabled(taxes[first])
    IN  /\ cache_filled
        /\ IF hits # {}
           THEN Persist([self_config EXCEPT
                            !.taxes[first].enabled =
                                IF new_status THEN "true" ELSE "false"],
                        [verb |-> IF new_status THEN "ativado" ELSE "desativado",
                         name |-> taxes[first].name],
                        Call("toggle_tax_status", tax_id, NoTax,
                             IF new_status THEN "True" ELSE "False"))
           ELSE Refuse(Call("toggle_tax_status", tax_id, NoTax, "None"))
        /\ UNCHANGED <<clock, mutation, reader, pipeline_vars, queue_vars, extraction_vars, validator_vars>>

\* A second passes.
Tick ==
    /\ clock < MaxClock
    /\ clock' = clock + 1
    /\ UNCHANGED <<primary, backups, self_config, cache_filled, last_op,
                   mutation, reader, pipeline_vars, queue_vars, extraction_vars, validator_vars>>

(***************************************************************************)
(* The same mutations, statement by statement, with the primary file and   *)
(* the backup file as another process or a crash can find them: open(...,  *)
(* 'w') leaves a file empty, the writes that follow extend it, close       *)
(* completes it.                                                           *)
(***************************************************************************)
MaxStepHistory == 2     \* statement-by-statement mutations in one behaviour

RegistryOps == {"add_tax", "update_tax", "delete_tax", "toggle_tax_status"}

\* What a call changes in self._config once its check has passed, and the
\* text of its history entry; applies = FALSE is the call that returns
\* False / None.
Change(config, op, tax_id, tax_data) ==
    LET taxes == config.taxes
        id == IF op = "add_tax" THEN tax_data.id ELSE tax_id
        hits == {i \in 1..Len(taxes) : taxes[i].id = id}
        first == CHOOSE i \in hits : \A j \in hits : i <= j
        keep(t) == t.id # id
        new_status == ~is_enabled(taxes[first])
    IN  IF op = "add_tax"
        THEN [applies |-> hits = {},
              changed |-> [config EXCEPT !.taxes = Append(@, tax_data)],
              description |-> [verb |-> "adicionado", name |-> tax_data.name]]
        ELSE IF hits = {}
        THEN [applies |-> FALSE, changed |-> config,
              description |-> [verb |-> "", name |-> ""]]
        ELSE IF op = "update_tax"
        THEN [applies |-> TRUE,
              changed |-> [config EXCEPT !.taxes[first] = tax_data],
              description |-> [verb |-> "atualizado", name |-> tax_data.name]]
        ELSE IF op = "delete_tax"
        THEN [applies |-> TRUE,
              changed |-> [config EXCEPT !.taxes = SelectSeq(@, keep)],
              description |-> [verb |-> "removido", name |-> taxes[first].name]]
        ELSE [applies |-> TRUE,
              changed |-> [config EXCEPT !.taxes[first].enabled =
                              IF new_status THEN "true" ELSE "false"],
              description |-> [verb |-> IF new_status THEN "ativado" ELSE "desativado",
                               name |-> taxes[first].name]]

\* The call has passed its check and is about to take its backup.
StartMutation(op, tax_id, tax_data) ==
    /\ mutation.pc = "idle"
    /\ cache_filled
    /\ Len(self_config.change_history) < MaxStepHistory
    /\ Change(self_config, op, tax_id, tax_data).applies
    /\ mutation' = [pc |-> "backup", op |-> op,
                    tax_id |-> IF op = "add_tax" THEN "" ELSE tax_id,
                    tax_data |-> IF op \in {"add_tax", "update_tax"}
                                 THEN tax_data ELSE NoTax,
                    timestamp |-> clock,
                    pre_config |-> self_config, pre_primary |-> primary]
    /\ reader' = NoRead
    /\ UNCHANGED <<primary, backups, self_config, cache_filled, clock, last_op,
                   pipeline_vars, queue_vars, extraction_vars, validator_vars>>

\* _create_backup: shutil.copy2 opens the backup path for writing.
BackupOpen ==
    /\ mutation.pc = "backup"
    /\ backups' = _create_backup(<<>>, backups, clock)
    /\ mutation' = [mutation EXCEPT !.pc = "copying", !.timestamp = clock]
    /\ UNCHANGED <<primary, self_config, cache_filled, clock, last_op, reader,
                   pipeline_vars, queue_vars, extraction_vars, validator_vars>>

BackupCopy_skipping ==
    /\ mutation.pc = "copying"
    /\ mutation' = [mutation EXCEPT !.pc = "apply"]
    /\ UNCHANGED <<primary, backups, self_config, cache_filled, clock, last_op,
                   reader, pipeline_vars, queue_vars, extraction_vars, validator_vars>>

\* shutil.copy2 copies the primary file and closes the backup.
BackupCopy ==
    LET written == backups[mutation.timestamp]
    IN  /\ mutation.pc = "copying"
        /\ IF Len(written) < Len(primary)
           THEN /\ backups' = [backups EXCEPT ![mutation.timestamp] =
                                  Append(written, primary[Len(written) + 1])]
                /\ UNCHANGED mutation
           ELSE /\ mutation' = [mutation EXCEPT !.pc = "apply"]
                /\ UNCHANGED backups
        /\ UNCHANGED <<primary, self_config, cache_filled, clock, last_op,
                       reader, pipeline_vars, queue_vars, extraction_vars, validator_vars>>

\* The change to self._config and _add_change_to_history.
Apply ==
    LET change == Change(self_config, mutation.op, mutation.tax_id, mutation.tax_data)
    IN  /\ mutation.pc = "apply"
        /\ self_config' = _add_change_to_history(change.changed,
                                                 change.description, clock)
        /\ mutation' = [mutation EXCEPT !.pc = "save"]
        /\ UNCHANGED <<primary, backups, cache_filled, clock, last_op, reader,
                       pipeline_vars, queue_vars, extraction_vars, validator_vars>>

\* _save_config: open(self.config_path, 'w') truncates the primary file.
SaveOpen ==
    /\ mutation.pc = "save"
    /\ primary' = <<>>
    /\ mutation' = [mutation EXCEPT !.pc = "dumping"]
    /\ UNCHANGED <<backups, self_config, cache_filled, clock, last_op, reader,
                   pipeline_vars, queue_vars, extraction_vars, validator_vars>>

\* _save_config: json.dump writes the document, then the file is closed.
SaveDump ==
    LET text == _save_config(self_config)
    IN  /\ mutation.pc = "dumping"
        /\ IF Len(primary) < Len(text)
           THEN /\ primary' = Append(primary, text[Len(primary) + 1])
                /\ UNCHANGED mutation
           ELSE /\ mutation' = [mutation EXCEPT !.pc = "reload"]
                /\ UNCHANGED primary
        /\ UNCHANGED <<backups, self_config, cache_filled, clock, last_op,
                       reader, pipeline_vars, queue_vars, extraction_vars, validator_vars>>

\* self.reload() and get_tax_config.cache_clear(); the call returns.
Reload ==
    /\ mutation.pc = "reload"
    /\ self_config' = _load_config(primary).config
    /\ cache_filled' = FALSE
    /\ mutation' = [mutation EXCEPT !.pc = "idle"]
    /\ UNCHANGED <<primary, backups, clock, last_op, reader,
                   pipeline_vars, queue_vars, extraction_vars, validator_vars>>

\* The process running the mutation dies between two statements.
Crash ==
    /\ mutation.pc \notin {"idle", "crashed"}
    /\ mutation' = [mutation EXCEPT !.pc = "crashed"]
    /\ UNCHANGED <<primary, backups, self_config, cache_filled, clock, last_op,
                   reader, pipeline_vars, queue_vars, extraction_vars, validator_vars>>

\* Another process builds a TaxConfig while the mutation is under way:
\* _load_config reads the primary file as it is at that moment (one such
\* read is followed per mutation).
ReadPrimary ==
    LET loaded == _load_config(primary)
    IN  /\ mutation.pc \notin {"idle", "crashed"}
        /\ ~reader.loaded
        /\ reader' = [loaded |-> TRUE, ok |-> loaded.ok, config |-> loaded.config,
                      old |-> mutation.pre_config, new |-> self_config]
        /\ UNCHANGED <<primary, backups, self_config, cache_filled, clock,
                       last_op, mutation, pipeline_vars, queue_vars, extraction_vars, validator_vars>>

(***************************************************************************)
(* agents/extraction_agent.py: the taxes an extraction asks for.  The      *)
(* pipeline runs in the Streamlit process (app.py), where the admin page   *)
(* also lives, and in the API server process (api/main.py), which has its  *)
(* own get_tax_config cache.                                               *)
(***************************************************************************)
Processes == {"app", "api"}

\* What _extract_from_xml meets in the document: its root element and its
\* total block (absent, present, or holding a value float() rejects).
TaxXmls == [root : {"nfeProc", "NFe", "other"}, total : {"absent", "present", "raises"}]

\* The ids of get_all_taxes(enabled_only=True).
EnabledIds(config) ==
    LET enabled == get_all_taxes(config, TRUE)
    IN  {enabled[i].id : i \in 1..Len(enabled)}

\* The keys of the dictionary _extract_taxes_from_xml returns.
_extract_taxes_from_xml(config) == EnabledIds(config)

\* The tax fields _build_extraction_prompt lists in the prompt.
_build_extraction_prompt(config) == EnabledIds(config)

\* Whether the extraction reaches get_tax_config() at all.
ReadsRegistry(source, xml) ==
    source = "prompt" \/ (xml.root # "other" /\ xml.total = "present")

\* The impostos keys of the record _extract_from_xml returns (none when it
\* returns an error record), or the tax fields of the prompt.
impostos(source, xml, config) ==
    IF source = "prompt"
    THEN [error |-> FALSE, keys |-> _build_extraction_prompt(config)]
    ELSE IF xml.root = "other" THEN [error |-> FALSE, keys |-> {}]
    ELSE IF xml.total = "raises" THEN [error |-> TRUE, keys |-> {}]
    ELSE IF xml.total = "absent" THEN [error |-> FALSE, keys |-> {}]
    ELSE [error |-> FALSE, keys |-> _extract_taxes_from_xml(config)]

\* get_tax_config() in the API server process, whose cache nothing clears.
ApiGetTaxConfig ==
    /\ ~api_cache.filled
    /\ _load_config(primary).ok
    /\ api_cache' = [filled |-> TRUE, config |-> _load_config(primary).config]
    /\ UNCHANGED <<primary, backups, self_config, cache_filled, clock, last_op,
                   mutation, reader, extraction, pipeline_vars, queue_vars,
                   validator_vars>>

\* One extraction (one is followed per behaviour): the process, the path
\* (structured document or oracle prompt) and the document.
ExtractTaxes(process, source, xml) ==
    LET cached == IF process = "app" THEN cache_filled ELSE api_cache.filled
        held == IF process = "app" THEN self_config ELSE api_cache.config
        view == IF cached THEN held ELSE _load_config(primary).config
        result == impostos(source, xml, view)
    IN  /\ ~extraction.done
        /\ mutation.pc = "idle"
        /\ _load_config(primary).ok
        /\ extraction' = [done |-> TRUE, process |-> process, source |-> source,
                          read |-> ReadsRegistry(source, xml),
                          error |-> result.error, keys |-> result.keys,
                          enabled_at |-> EnabledIds(_load_config(primary).config),
                          history_len |->
                              Len(_load_config(primary).config.change_history)]
        /\ IF ReadsRegistry(source, xml) /\ process = "app"
           THEN self_config' = view /\ cache_filled' = TRUE
           ELSE UNCHANGED <<self_config, cache_filled>>
        /\ IF ReadsRegistry(source, xml) /\ process = "api"
           THEN api_cache' = [filled |-> TRUE, config |-> view]
           ELSE UNCHANGED api_cache
        /\ UNCHANGED <<primary, backups, clock, last_op, mutation, reader,
                       pipeline_vars, queue_vars,
                       validator_vars>>

(***************************************************************************)
(* utils/validators.py: validate_nfe_key.  A key is a sequence of          *)
(* characters: the digits 0..9, or NonDigit for any other character.       *)
(***************************************************************************)
KeyLength == 44        \* validate_nfe_key: len(key_clean) != 44
MaxEdits == 2          \* changes made to the key in one behaviour

NonDigit == 0 - 1

\* A key with a correct check digit, and the places the model edits.
ValidKey ==
    <<3, 5, 2, 0, 0, 9, 0, 2, 3, 4, 5, 6, 7, 0, 0, 0, 0, 1, 6, 5, 5, 0,
      0, 1, 0, 0, 0, 0, 0, 0, 0, 1, 2, 3, 1, 2, 3, 4, 5, 6, 7, 8, 9, 6>>
EditPositions == {1, 36, 43, 44, 45}
EditChars == {0, 5, 6, 9, NonDigit}

IsDigit(c) == c \in 0..9

next_multiplicador_wrapping_early(multiplicador) ==
    IF multiplicador = 8 THEN 2 ELSE multiplicador + 1

\* multiplicador = 3 if multiplicador == 2 else 2 if multiplicador == 9
\*                 else multiplicador + 1
next_multiplicador(multiplicador) ==
    IF multiplicador = 2 THEN 3
    ELSE IF multiplicador = 9 THEN 2
    ELSE multiplicador + 1

\* for i in range(42, -1, -1): soma += int(base[i]) * multiplicador
RECURSIVE soma_loop(_, _, _)
soma_loop(base, i, multiplicador) ==
    IF i < 0 THEN 0
    ELSE base[i + 1] * multiplicador
         + soma_loop(base, i - 1, next_multiplicador(multiplicador))

validate_nfe_key(k) ==
    IF k = <<>> THEN FALSE
    ELSE LET key_clean == SelectSeq(k, IsDigit)
         IN  IF Len(key_clean) # KeyLength THEN FALSE
             ELSE LET base == SubSeq(key_clean, 1, KeyLength - 1)
                      dv == key_clean[KeyLength]
                      soma == soma_loop(base, KeyLength - 2, 2)
                      resto == soma % 11
                      dv_calculado == IF resto \in {0, 1} THEN 0 ELSE 11 - resto
                  IN  dv = dv_calculado

ValidatorInit ==
    /\ key = ValidKey
    /\ verdict = [checked |-> FALSE, accepted |-> FALSE, edits |-> 0]

Edited(k) ==
    /\ verdict.edits < MaxEdits
    /\ key' = k
    /\ verdict' = [checked |-> FALSE, accepted |-> FALSE, edits |-> verdict.edits + 1]
    /\ UNCHANGED <<itens, item_check, records, report, pipeline_vars, queue_vars,
                   registry_vars>>

\* The caller's key with one character replaced.
SetChar(pos, c) ==
    /\ pos \in 1..Len(key)
    /\ key[pos] # c
    /\ Edited([key EXCEPT ![pos] = c])

\* ... with a character inserted (a separator, a prefix, an extra digit).
InsertChar(pos, c) ==
    /\ pos \in 1..(Len(key) + 1)
    /\ Edited(SubSeq(key, 1, pos - 1) \o <<c>> \o SubSeq(key, pos, Len(key)))

\* ... with its last character dropped.
Truncate ==
    /\ key # <<>>
    /\ Edited(SubSeq(key, 1, Len(key) - 1))

ValidateKey ==
    /\ ~verdict.checked
    /\ verdict' = [verdict EXCEPT !.checked = TRUE, !.accepted = validate_nfe_key(key)]
    /\ UNCHANGED <<key, itens, item_check, records, report, pipeline_vars, queue_vars,
                   registry_vars>>

(***************************************************************************)
(* Python's float: an IEEE 754 double.  A natural number of any size is a  *)
(* sequence of limbs, least significant first, without leading zero limbs; *)
(* a double is the sign-less value m * 2^e with 2^52 <= m < 2^53, or zero  *)
(* (m = <<>>).  The values of the item check are far from the subnormal    *)
(* and the overflow range.                                                 *)
(***************************************************************************)
LimbBits == 15
Base == 2 ^ LimbBits
MantissaBits == 53

RECURSIVE BNorm(_)
BNorm(a) ==
    IF a = <<>> THEN <<>>
    ELSE IF a[Len(a)] = 0 THEN BNorm(SubSeq(a, 1, Len(a) - 1))
    ELSE a

RECURSIVE BFromInt(_)
BFromInt(n) == IF n = 0 THEN <<>> ELSE <<n % Base>> \o BFromInt(n \div Base)

Limb(a, i) == IF i <= Len(a) THEN a[i] ELSE 0

RECURSIVE BAddFrom(_, _, _, _)
BAddFrom(a, b, i, carry) ==
    IF i > Len(a) /\ i > Len(b)
    THEN IF carry = 0 THEN <<>> ELSE <<carry>>
    ELSE LET s == Limb(a, i) + Limb(b, i) + carry
         IN  <<s % Base>> \o BAddFrom(a, b, i + 1, s \div Base)

BAdd(a, b) == BAddFrom(a, b, 1, 0)

\* a - b for a >= b
RECURSIVE BSubFrom(_, _, _, _)
BSubFrom(a, b, i, borrow) ==
    IF i > Len(a) THEN <<>>
    ELSE LET s == Limb(a, i) - Limb(b, i) - borrow
         IN  IF s < 0 THEN <<s + Base>> \o BSubFrom(a, b, i + 1, 1)
             ELSE <<s>> \o BSubFrom(a, b, i + 1, 0)

BSub(a, b) == BNorm(BSubFrom(a, b, 1, 0))

\* -1, 0 or 1 as a < b, a = b or a > b
RECURSIVE BCmpFrom(_, _, _)
BCmpFrom(a, b, i) ==
    IF i = 0 THEN 0
    ELSE IF a[i] > b[i] THEN 1
    ELSE IF a[i] < b[i] THEN 0 - 1
    ELSE BCmpFrom(a, b, i - 1)

BCmp(a, b) ==
    IF Len(a) > Len(b) THEN 1
    ELSE IF Len(a) < Len(b) THEN 0 - 1
    ELSE BCmpFrom(a, b, Len(a))

\* a * k for 0 <= k < Base
RECURSIVE BMulSmallFrom(_, _, _, _)
BMulSmallFrom(a, k, i, carry) ==
    IF i > Len(a) THEN IF carry = 0 THEN <<>> ELSE <<carry>>
    ELSE LET s == a[i] * k + carry
         IN  <<s % Base>> \o BMulSmallFrom(a, k, i + 1, s \div Base)

BMulSmall(a, k) == BNorm(BMulSmallFrom(a, k, 1, 0))

BShiftLimb(a) == IF a = <<>> THEN <<>> ELSE <<0>> \o a

RECURSIVE BMul(_, _)
BMul(a, b) ==
    IF b = <<>> THEN <<>>
    ELSE BNorm(BAdd(BMulSmall(a, Head(b)), BShiftLimb(BMul(a, Tail(b)))))

\* quotient and remainder of a by d, for 0 < d < Base
RECURSIVE BDivSmallFrom(_, _, _, _)
BDivSmallFrom(a, d, i, rem) ==
    IF i = 0 THEN [q |-> <<>>, r |-> rem]
    ELSE LET cur == rem * Base + a[i]
             rest == BDivSmallFrom(a, d, i - 1, cur % d)
         IN  [q |-> rest.q \o <<cur \div d>>, r |-> rest.r]

BDivSmall(a, d) ==
    LET res == BDivSmallFrom(a, d, Len(a), 0)
    IN  [q |-> BNorm(res.q), r |-> res.r]

RECURSIVE BitsOf(_)
BitsOf(n) == IF n = 0 THEN 0 ELSE 1 + BitsOf(n \div 2)

BBits(a) == IF a = <<>> THEN 0 ELSE LimbBits * (Len(a) - 1) + BitsOf(a[Len(a)])

RECURSIVE BShiftLimbs(_, _)
BShiftLimbs(a, n) == IF n = 0 THEN a ELSE BShiftLimbs(BShiftLimb(a), n - 1)

\* a * 2^n and floor(a / 2^n)
BShl(a, n) == BMulSmall(BShiftLimbs(a, n \div LimbBits), 2 ^ (n % LimbBits))

BShr(a, n) ==
    IF n \div LimbBits >= Len(a) THEN <<>>
    ELSE BDivSmall(SubSeq(a, n \div LimbBits + 1, Len(a)), 2 ^ (n % LimbBits)).q

FloatZero == [m |-> <<>>, e |-> 0]

\* The double nearest to n * 2^e (plus a non-zero fraction of 2^e below one
\* unit, if sticky), ties to even.
RoundToDouble(n, e, sticky) ==
    IF n = <<>> THEN FloatZero
    ELSE LET L == BBits(n)
         IN  IF L <= MantissaBits
             THEN [m |-> BShl(n, MantissaBits - L), e |-> e - (MantissaBits - L)]
             ELSE LET s == L - MantissaBits
                      q == BShr(n, s)
                      rem == BSub(n, BShl(q, s))
                      c == BCmp(rem, BShl(<<1>>, s - 1))
                      up == c > 0 \/ (c = 0 /\ (sticky \/ q[1] % 2 = 1))
                      q2 == IF up THEN BAdd(q, <<1>>) ELSE q
                  IN  IF BBits(q2) > MantissaBits
                      THEN [m |-> BShr(q2, 1), e |-> e + s + 1]
                      ELSE [m |-> q2, e |-> e + s]

\* float("<num>/<den> written as a decimal"), for 0 <= num and den a power of ten
GuardBits == 70
float(num, den) ==
    LET d == BDivSmall(BShl(BFromInt(num), GuardBits), den)
    IN  RoundToDouble(d.q, 0 - GuardBits, d.r # 0)

FMul(x, y) ==
    IF x.m = <<>> \/ y.m = <<>> THEN FloatZero
    ELSE RoundToDouble(BMul(x.m, y.m), x.e + y.e, FALSE)

\* The mantissa of x on the exponent e <= x.e
Aligned(x, e) == IF x.m = <<>> THEN <<>> ELSE BShl(x.m, x.e - e)

CommonExp(x, y) ==
    IF x.m = <<>> THEN y.e ELSE IF y.m = <<>> THEN x.e
    ELSE IF x.e < y.e THEN x.e ELSE y.e

\* abs(x - y)
FAbsDiff(x, y) ==
    LET e == CommonExp(x, y)
        a == Aligned(x, e)
        b == Aligned(y, e)
    IN  IF BCmp(a, b) >= 0 THEN RoundToDouble(BSub(a, b), e, FALSE)
        ELSE RoundToDouble(BSub(b, a), e, FALSE)

\* x > y
FGt(x, y) ==
    LET e == CommonExp(x, y)
    IN  BCmp(Aligned(x, e), Aligned(y, e)) > 0

(***************************************************************************)
(* agents/validation_agent.py: the loop over extracted_data['itens'].  An  *)
(* item holds the decimal texts the document carries: the quantity in      *)
(* units, the unit price and the line total in hundredths; the extraction  *)
(* turns each into a float.                                                *)
(***************************************************************************)
MaxLineItems == 2      \* items of the record the model validates
Quantities == {0, 1, 10}
UnitPrices == {0 - 200, 199, 200, 201}
LineTotals == {200, 2010, 2011}
Items == [quantidade : Quantities, valor_unitario : UnitPrices, valor_total : LineTotals]

\* diferenca > (valor_total * 0.005), for qtd > 0 and valor_unit > 0
divergence(item) ==
    LET qtd == float(item.quantidade, 1)
        valor_unit == float(item.valor_unitario, 100)
        valor_total == float(item.valor_total, 100)
        valor_calculado == FMul(qtd, valor_unit)
        diferenca == FAbsDiff(valor_calculado, valor_total)
    IN  FGt(diferenca, FMul(valor_total, float(5, 1000)))

\* The warnings the loop appends for the item at 0-based index i.
item_warnings(item, i) ==
    (IF item.quantidade <= 0
     THEN <<[item |-> i + 1, kind |-> "quantidade invalida"]>> ELSE <<>>)
    \o (IF item.valor_unitario < 0
        THEN <<[item |-> i + 1, kind |-> "valor unitario negativo"]>> ELSE <<>>)
    \o (IF item.quantidade > 0 /\ item.valor_unitario > 0 /\ divergence(item)
        THEN <<[item |-> i + 1, kind |-> "divergencia no calculo"]>> ELSE <<>>)

RECURSIVE itens_loop(_, _)
itens_loop(list, i) ==
    IF i >= Len(list) THEN <<>>
    ELSE item_warnings(list[i + 1], i) \o itens_loop(list, i + 1)

ItemsInit ==
    /\ itens = <<>>
    /\ item_check = [checked |-> FALSE, warnings |-> <<>>]

\* The record gets one more item.
AddItem(item) ==
    /\ ~item_check.checked
    /\ Len(itens) < MaxLineItems
    /\ itens' = Append(itens, item)
    /\ UNCHANGED <<item_check, key, verdict, records, report, pipeline_vars, queue_vars,
                   registry_vars>>

\* validate reaches the item check of a record with items.
ValidateItens ==
    /\ ~item_check.checked
    /\ itens # <<>>
    /\ item_check' = [checked |-> TRUE, warnings |-> itens_loop(itens, 0)]
    /\ UNCHANGED <<itens, key, verdict, records, report, pipeline_vars, queue_vars,
                   registry_vars>>

(***************************************************************************)
(* agents/analysis_agent.py: analyze_multiple_documents.  A document is    *)
(* the row services/analysis_service.py hands over; amounts are in         *)
(* hundredths, a missing document_type is "".  An insight is the kind of   *)
(* its message.                                                            *)
(***************************************************************************)
MaxRecords == 2        \* documents of the record set the model analyses
TotalValues == {0, 10000}
TaxTotals == {3000, 3001, 4001}
DocumentRows ==
    [total_value : TotalValues, tax_total : TaxTotals, is_valid : BOOLEAN,
     document_type : {"", "NFe"}]

RECURSIVE sum_of(_, _)
sum_of(docs, field) ==
    IF docs = <<>> THEN 0 ELSE Head(docs)[field] + sum_of(Tail(docs), field)

valid_count(docs) == Cardinality({i \in 1..Len(docs) : docs[i].is_valid})

_generate_aggregate_insights(docs) ==
    (IF sum_of(docs, "total_value") > 0
     THEN <<"Carga tributaria media">> ELSE <<>>)
    \o (IF valid_count(docs) < Len(docs)
        THEN <<"Taxa de documentos com erros">> ELSE <<>>)
    \o (IF \E i \in 1..Len(docs) : docs[i].document_type # ""
        THEN <<"Tipo mais comum">> ELSE <<>>)

analyze_multiple_documents(docs) ==
    IF docs = <<>>
    THEN [error |-> TRUE, total_documents |-> 0, total_value |-> 0, total_taxes |-> 0,
          insights |-> <<>>]
    ELSE [error |-> FALSE, total_documents |-> Len(docs),
          total_value |-> sum_of(docs, "total_value"),
          total_taxes |-> sum_of(docs, "tax_total"),
          insights |-> _generate_aggregate_insights(docs)]

NoReport ==
    [analysed |-> FALSE, error |-> FALSE, total_documents |-> 0, total_value |-> 0,
     total_taxes |-> 0, insights |-> <<>>]

AnalysisInit ==
    /\ records = <<>>
    /\ report = NoReport

\* One more processed document is in the set.
AddRecord(doc) ==
    /\ ~report.analysed
    /\ Len(records) < MaxRecords
    /\ records' = Append(records, doc)
    /\ UNCHANGED <<report, key, verdict, itens, item_check, pipeline_vars, queue_vars,
                   registry_vars>>

AnalyzeMultipleDocuments ==
    /\ ~report.analysed
    /\ LET analysis == analyze_multiple_documents(records)
       IN  report' = [analysed |-> TRUE, error |-> analysis.error,
                      total_documents |-> analysis.total_documents,
                      total_value |-> analysis.total_value,
                      total_taxes |-> analysis.total_taxes,
                      insights |-> analysis.insights]
    /\ UNCHANGED <<records, key, verdict, itens, item_check, pipeline_vars, queue_vars,
                   registry_vars>>

Init ==
    /\ PipelineInit
    /\ QueueInit
    /\ RegistryInit
    /\ ValidatorInit
    /\ ItemsInit
    /\ AnalysisInit

Next ==
    \/ StartRun
    \/ RunProcessFile
    \/ RunClassify
    \/ RunExtract
    \/ RunValidate

Spec == Init /\ [][Next]_vars

\* A run from any initial status; the compiled graph runs the node that is
\* due until the router answers END or a node raises.
NextInvoke ==
    \/ \E file \in Files, status \in InitialStatuses : workflow_invoke(file, status)
    \/ RunProcessFile
    \/ RunClassify
    \/ RunExtract
    \/ RunValidate

SpecInvoke ==
    /\ Init
    /\ [][NextInvoke]_vars
    /\ WF_vars(RunProcessFile \/ RunClassify \/ RunExtract \/ RunValidate)

NextQueue ==
    \/ CreateBatch
    \/ RetryFailed
    \/ Poll
    \/ Wake
    \/ MarkProcessing
    \/ InvokePipeline
    \/ FinishItem

SpecQueue == Init /\ [][NextQueue]_vars

\* The queue with status updates that can raise, and a worker that keeps
\* running: the event loop resumes batch_worker after every sleep, and each
\* call it makes returns or raises.
NextQueueLive ==
    \/ NextQueue
    \/ FinishItemRaising

SpecQueueLive ==
    /\ Init
    /\ [][NextQueueLive]_vars
    /\ WF_vars(Poll)
    /\ WF_vars(Wake)
    /\ WF_vars(MarkProcessing)
    /\ WF_vars(InvokePipeline)
    /\ WF_vars(FinishItem \/ FinishItemRaising)

\* retry_failed, called only while no item has run MaxRetriedRuns times.
RetryFailedEarly ==
    /\ \A i \in ItemIds : runs[i].count < MaxRetriedRuns
    /\ RetryFailed

NextBackground ==
    \/ CreateBatch
    \/ RetryFailedEarly
    \/ Poll
    \/ Wake
    \/ MarkProcessing
    \/ InvokePipeline
    \/ FinishItem
    \/ StartBatchProcessing
    \/ TaskMarkProcessing
    \/ TaskInvokePipeline
    \/ TaskFinish

SpecBackground == Init /\ [][NextBackground]_vars

NextRegistry ==
    \/ get_tax_config
    \/ \E tax_data \in TaxInputs : add_tax(tax_data)
    \/ \E tax_id \in TaxIds, updated_data \in TaxInputs : update_tax(tax_id, updated_data)
    \/ \E tax_id \in TaxIds : delete_tax(tax_id)
    \/ \E tax_id \in TaxIds : toggle_tax_status(tax_id)
    \/ Tick

SpecRegistry == Init /\ [][NextRegistry]_vars

NextRegistrySteps ==
    \/ get_tax_config
    \/ \E op \in RegistryOps, tax_id \in TaxIds, tax_data \in TaxInputs :
           StartMutation(op, tax_id, tax_data)
    \/ BackupOpen
    \/ BackupCopy
    \/ Apply
    \/ SaveOpen
    \/ SaveDump
    \/ Reload
    \/ Crash
    \/ ReadPrimary
    \/ Tick

SpecRegistrySteps == Init /\ [][NextRegistrySteps]_vars

NextExtraction ==
    \/ get_tax_config
    \/ \E tax_data \in TaxInputs : add_tax(tax_data)
    \/ \E tax_id \in TaxIds : delete_tax(tax_id)
    \/ \E tax_id \in TaxIds : toggle_tax_status(tax_id)
    \/ ApiGetTaxConfig
    \/ \E process \in Processes, xml \in TaxXmls : ExtractTaxes(process, "xml", xml)
    \/ \E process \in Processes :
           ExtractTaxes(process, "prompt", [root |-> "other", total |-> "absent"])

SpecExtraction == Init /\ [][NextExtraction]_vars

NextValidator ==
    \/ \E pos \in EditPositions, c \in EditChars : SetChar(pos, c)
    \/ \E pos \in EditPositions, c \in EditChars : InsertChar(pos, c)
    \/ Truncate
    \/ ValidateKey

SpecValidator == Init /\ [][NextValidator]_vars

NextItems ==
    \/ \E item \in Items : AddItem(item)
    \/ ValidateItens

SpecItems == Init /\ [][NextItems]_vars

NextAnalysis ==
    \/ \E doc \in DocumentRows : AddRecord(doc)
    \/ AnalyzeMultipleDocuments

SpecAnalysis == Init /\ [][NextAnalysis]_vars

(***************************************************************************)
(* Properties of the pipeline (checked under Spec).                        *)
(***************************************************************************)
\* C1: when process_file, classify or extract returns with a non-empty errors
\* list, the router answers END whatever the status is, and once errors is
\* non-empty no node is pending any more.
C1_ErrorsEndRun ==
    [][ /\ (pc \in {"process_file", "classify", "extract"} /\ state'.errors # <<>>)
           => pc' = END
        /\ state.errors # <<>> => (pc = END /\ invoked' = invoked) ]_vars

\* A run that ended after process_file with errors and status 'processed'.
C1_Witness ==
    /\ pc = END
    /\ state.errors # <<>>
    /\ state.status = "processed"
    /\ invoked = <<"process_file">>

\* C2 (as claimed): whenever extraction fails, the run halts at extract: the
\* validator is not invoked and the run ends with a non-empty errors list.
C2_ExtractionFailureHalts ==
    (pc \in {END, "raised"} /\ ExtractionFailed(state))
        => (~(\E i \in 1..Len(invoked) : invoked[i] = "validate") /\ state.errors # <<>>)

\* C3: the nodes invoked in a run are a prefix of process_file, classify,
\* extract, validate (so each at most once), and a node is pending only if
\* it is the next one in that order and errors is empty.
C3_FixedOrder ==
    /\ Len(invoked) <= Len(NodeOrder)
    /\ \A i \in 1..Len(invoked) : invoked[i] = NodeOrder[i]
    /\ pc \in Nodes => (pc = NodeOrder[Len(invoked) + 1] /\ state.errors = <<>>)

\* A run in which all four nodes were invoked.
C3_Witness == pc = END /\ invoked = NodeOrder

\* C4 (as claimed): every run ends with status 'validated' and no errors, or
\* with status 'error' and a non-empty errors list.
C4_FinalStatus ==
    pc = END => \/ (state.status = "validated" /\ state.errors = <<>>)
                \/ (state.status = "error" /\ state.errors # <<>>)

\* C5: for an unsupported extension or a file the normalizer cannot read, the
\* run ends after process_file with the cause as the only entry of errors,
\* and classification, extracted_data and validation are still empty.
C5_NormalizerHalt ==
    (pc \notin {"idle", "process_file"}
        /\ (get_file_type(input.ext) = "unknown" \/ ~input.readable))
    => /\ pc = END
       /\ invoked = <<"process_file">>
       /\ state.processed_data.error # "none"
       /\ state.errors = <<state.processed_data.error>>
       /\ state.classification = EmptyClassification
       /\ state.extracted_data = EmptyExtracted
       /\ state.validation = EmptyValidation

\* A readable file with an unsupported extension, after its run.
C5_Witness ==
    /\ pc = END
    /\ input.ext = ".txt"
    /\ input.readable
    /\ state.errors = <<"Formato nao suportado">>

(***************************************************************************)
(* Properties of the batch queue (checked under SpecQueue).                *)
(***************************************************************************)
\* C6 (as claimed): a queue item whose pipeline run failed at extraction ends
\* 'failed' with an error message, is never marked 'completed', and no
\* document is persisted for it.
C6_ExtractionFailureFailsItem ==
    /\ \A i \in ItemIds :
          (runs[i].extraction_failed /\ queue[i].status \in {"completed", "failed"})
              => (queue[i].status = "failed" /\ queue[i].error_message # "None")
    /\ \A k \in 1..Len(documents) : documents[k].extraction_error = "none"

\* C7 (as claimed): over any sequence of worker runs, failures and
\* retry_failed calls, no queue item is processed more than 3 times.
C7_AtMostThreeRuns ==
    \A i \in ItemIds : runs[i].count <= RetryCeiling

(***************************************************************************)
(* Properties of the tax registry (checked under SpecRegistry).            *)
(***************************************************************************)
\* The precondition under which each operation is specified to fail.
Fails(call) ==
    IF call.op = "add_tax"
    THEN \E i \in 1..Len(call.before_config.taxes) :
             call.before_config.taxes[i].id = call.tax_data.id
    ELSE \A i \in 1..Len(call.before_config.taxes) :
             call.before_config.taxes[i].id # call.tax_id

\* The index of the definition an operation on tax_id addresses.
Addressed(taxes, tax_id) ==
    CHOOSE i \in 1..Len(taxes) :
        /\ taxes[i].id = tax_id
        /\ \A j \in 1..(i - 1) : taxes[j].id # tax_id

\* The taxes list the specification expects after a successful call.
Expected(call) ==
    LET old == call.before_config.taxes
        differs(t) == t.id # call.tax_id
        at == Addressed(old, call.tax_id)
    IN  IF call.op = "add_tax" THEN old \o <<call.tax_data>>
        ELSE IF call.op = "update_tax" THEN [old EXCEPT ![at] = call.tax_data]
        ELSE IF call.op = "delete_tax" THEN SelectSeq(old, differs)
        ELSE [old EXCEPT ![at].enabled =
                  IF old[at].enabled = "false" THEN "true" ELSE "false"]

\* C8: after a successful add_tax, update_tax, delete_tax or
\* toggle_tax_status, (a) a fresh read of the registry, by a new TaxConfig
\* or by get_tax_config(), returns the changed configuration, (b) some
\* backup file holds the configuration as it was before the operation, and
\* (c) the change history is exactly one entry longer than before.
C8_SuccessfulMutation ==
    (last_op.op # "none" /\ ~Fails(last_op)) =>
        LET fresh == _load_config(primary)
        IN  /\ last_op.ret \in {"True", "False"}
            /\ last_op.op # "toggle_tax_status" => last_op.ret = "True"
            /\ fresh.ok
            /\ fresh.config.taxes = Expected(last_op)
            /\ cache_filled => self_config = fresh.config
            /\ last_op.op = "toggle_tax_status" =>
                   (last_op.ret = "True") =
                       is_enabled(get_tax_by_id(fresh.config, last_op.tax_id))
            /\ \E t \in DOMAIN backups :
                   /\ _load_config(backups[t]).ok
                   /\ _load_config(backups[t]).config = last_op.before_config
            /\ Len(fresh.config.change_history)
                   = Len(last_op.before_config.change_history) + 1

\* A successful update made in the same second as an earlier successful
\* mutation: the earlier backup file has been replaced.
C8_Witness ==
    /\ last_op.op = "update_tax"
    /\ last_op.ret = "True"
    /\ Len(self_config.change_history) >= 2
    /\ Cardinality(DOMAIN backups) < Len(self_config.change_history)

\* C9: an operation that fails (add_tax with an id that exists, update_tax,
\* delete_tax or toggle_tax_status with an absent id) returns False (None
\* for toggle) and leaves the in-memory configuration, the primary file, the
\* backup files and the change history as they were.
C9_FailedMutation ==
    (last_op.op # "none" /\ Fails(last_op)) =>
        /\ last_op.ret = IF last_op.op = "toggle_tax_status" THEN "None" ELSE "False"
        /\ self_config = last_op.before_config
        /\ primary = last_op.before_primary
        /\ backups = last_op.before_backups
        /\ _load_config(primary).config.change_history
               = last_op.before_config.change_history

\* add_tax refused for an id that exists, after earlier mutations left
\* history and a backup behind.
C9_Witness ==
    /\ last_op.op = "add_tax"
    /\ last_op.ret = "False"
    /\ get_tax_by_id(self_config, last_op.tax_data.id) # NoTax
    /\ self_config.change_history # <<>>
    /\ DOMAIN backups # {}

\* C10 (as claimed): the tax ids of the registry are pairwise distinct after
\* any sequence of add_tax, update_tax, delete_tax and toggle_tax_status.
C10_DistinctTaxIds ==
    \A i, j \in 1..Len(self_config.taxes) :
        i # j => self_config.taxes[i].id # self_config.taxes[j].id

(***************************************************************************)
(* Properties of a mutation seen statement by statement (checked under     *)
(* SpecRegistrySteps).                                                     *)
(***************************************************************************)
\* C11 (as claimed): a process that loads the primary file while a mutation
\* is in progress reads the complete old configuration or the complete new
\* one, never an empty or partially written file.
C11_ReaderSeesWholeFile ==
    reader.loaded =>
        /\ reader.ok
        /\ reader.config \in {reader.old, reader.new}

\* Whether the configuration a mutation started from can still be read
\* from the primary file or from one of the backup files.
Recoverable ==
    \/ /\ _load_config(primary).ok
       /\ _load_config(primary).config = mutation.pre_config
    \/ \E t \in DOMAIN backups :
           /\ _load_config(backups[t]).ok
           /\ _load_config(backups[t]).config = mutation.pre_config

\* C12: in every mutation the backup of the pre-mutation primary file is
\* complete before the primary file is opened for overwriting, so at every
\* point of the mutation, a crash at any statement included, the
\* pre-mutation configuration can be read from the primary file or from a
\* backup file.
C12_BackupBeforeOverwrite ==
    mutation.pc # "idle" =>
        /\ Recoverable
        /\ (primary # mutation.pre_primary \/ mutation.pc \in {"dumping", "reload"})
               => /\ mutation.timestamp \in DOMAIN backups
                  /\ backups[mutation.timestamp] = mutation.pre_primary

\* A crash right after open(..., 'w') emptied the primary file, in a
\* mutation whose backup replaced the backup of an earlier mutation of the
\* same second.
C12_Witness ==
    /\ mutation.pc = "crashed"
    /\ primary = <<>>
    /\ Len(mutation.pre_config.change_history) >= 1
    /\ Cardinality(DOMAIN backups) = 1

(***************************************************************************)
(* Properties of tax extraction against the registry (checked under        *)
(* SpecExtraction).                                                        *)
(***************************************************************************)
\* Whether the extraction ran after the last successful mutation.
AfterLastMutation ==
    /\ extraction.done
    /\ extraction.history_len = Len(_load_config(primary).config.change_history)

\* C13 (as claimed): after toggle_tax_status has disabled a tax of a
\* registry with distinct ids, get_all_taxes(enabled_only=True) and every
\* later extraction (impostos keys of the XML path, tax fields of the
\* prompt) no longer contain its id, and get_tax_by_id still returns its
\* definition with only enabled changed.
C13_DisabledTaxLeavesExtraction ==
    LET fresh == _load_config(primary).config
        before == last_op.before_config.taxes
        distinct == \A i, j \in 1..Len(before) : i # j => before[i].id # before[j].id
    IN  (last_op.op = "toggle_tax_status" /\ last_op.ret = "False" /\ distinct) =>
            /\ last_op.tax_id \notin EnabledIds(fresh)
            /\ get_tax_by_id(fresh, last_op.tax_id)
                   = [get_tax_by_id(last_op.before_config, last_op.tax_id)
                          EXCEPT !.enabled = "false"]
            /\ AfterLastMutation => last_op.tax_id \notin extraction.keys

\* C14 (as claimed): the record the structured path returns for an XML
\* input has an impostos key set equal to the set of tax ids enabled in the
\* registry at extraction time.
C14_ImpostosKeysAreEnabledIds ==
    (extraction.done /\ extraction.source = "xml")
        => (~extraction.error /\ extraction.keys = extraction.enabled_at)

\* C28 (as claimed): after an admin has added, deleted or toggled a tax, the
\* next extraction of any process that reads the registry uses the new
\* enabled tax set, also in the API process whose get_tax_config() was
\* cached before the change.
C28_ExtractionSeesChange ==
    (AfterLastMutation /\ extraction.read /\ extraction.history_len > 0)
        => (~extraction.error
            /\ extraction.keys = EnabledIds(_load_config(primary).config))

(***************************************************************************)
(* Properties of the validator (checked under Spec, which runs it on every *)
(* record the extract step can leave).                                     *)
(***************************************************************************)
\* C15: the validation result has is_valid = false exactly when its errors
\* list is non-empty; warnings do not change is_valid.
C15_IsValidIffNoErrors ==
    state.validation.present =>
        (state.validation.is_valid <=> state.validation.errors = <<>>)

\* A result with warnings and no errors: is_valid stays true.
C15_Witness ==
    /\ state.validation.present
    /\ state.validation.is_valid
    /\ Len(state.validation.warnings) >= 4

\* A record in which only one rule group can produce findings: the other
\* groups hold values that yield neither an error nor a warning.
Alone(c, group) ==
    [[emitente |-> "valid", destinatario |-> "cnpj_valid", chave |-> "valid",
      totais |-> "positive", itens |-> "consistent"] EXCEPT ![group] = c[group]]

RuleGroups == <<"emitente", "destinatario", "chave", "totais", "itens">>

\* C16: the five rule groups are evaluated independently, with no early
\* exit: errors and warnings are the findings each group produces when
\* taken alone, in group order; a valid issuer CNPJ with an invalid access
\* key yields exactly the access key error and no issuer warning.
C16_GroupsIndependent ==
    state.validation.present =>
        LET c == state.extracted_data.content
            e(k) == validation_errors(Alone(c, RuleGroups[k]))
            w(k) == validation_warnings(Alone(c, RuleGroups[k]))
        IN  /\ state.validation.errors = e(1) \o e(2) \o e(3) \o e(4) \o e(5)
            /\ state.validation.warnings = w(1) \o w(2) \o w(3) \o w(4) \o w(5)
            /\ (c.emitente = "valid" /\ c.chave = "invalid"
                    /\ c.destinatario \notin {"cnpj_invalid", "cpf_invalid"})
                   => /\ state.validation.errors = <<"Chave de acesso invalida">>
                      /\ \A k \in 1..Len(state.validation.warnings) :
                             state.validation.warnings[k]
                                 # "CNPJ do emitente nao encontrado"

\* Errors from two groups and warnings from two others, in one result.
C16_Witness ==
    /\ state.validation.present
    /\ state.extracted_data.content.emitente = "invalid"
    /\ state.extracted_data.content.chave = "invalid"
    /\ state.extracted_data.content.totais = "nonpositive"
    /\ state.extracted_data.content.itens = "divergent"
    /\ Len(state.validation.errors) = 2

\* C17 (as claimed): validate is total: once the validate node has been
\* invoked the run has a validation result and status 'validated', and no
\* exception leaves validate_node.
C17_ValidateTotal ==
    (Len(invoked) = 4 /\ pc # "validate")
        => (pc = END /\ state.status = "validated" /\ state.validation.present)

\* The step of classify_node in which ClassificationAgent() is built and the
\* oracle call of _classify_visual raises.
OracleFailsInVisualClassify ==
    /\ pc = "classify"
    /\ pc' # pc
    /\ get_file_type(input.ext) \in {"pdf", "image"}
    /\ state' = classify_node(state, input, "ok", OracleFail)

\* C19: when the oracle call fails during the classification of a PDF or an
\* image, classify still completes: status becomes 'classified', nothing is
\* appended to errors, document_type holds the error text, and the pipeline
\* goes on to the extract node.
C19_OracleFailureIsDocumentType ==
    [][OracleFailsInVisualClassify =>
          /\ state'.status = "classified"
          /\ state'.errors = state.errors
          /\ state'.classification.present
          /\ state'.classification.document_type = "Erro na classificacao: str(e)"
          /\ pc' = "extract"]_vars

C19_Witness ==
    /\ pc = "extract"
    /\ invoked = <<"process_file", "classify">>
    /\ get_file_type(input.ext) \in {"pdf", "image"}
    /\ state.status = "classified"
    /\ state.errors = <<>>
    /\ state.classification.document_type = "Erro na classificacao: str(e)"

\* The step of classify_node in which ClassificationAgent() is built and the
\* input is an XML file.
ClassifiesXml ==
    /\ pc = "classify"
    /\ pc' # pc
    /\ get_file_type(input.ext) = "xml"
    /\ state' = classify_node(state, input, "ok", OracleFail)

\* C22: for every parsed XML tree _classify_xml answers 'NFe' if the top-level
\* key is nfeProc or NFe, else 'CTe' if it is cteProc or CTe, else 'NFSe' if
\* the serialised tree contains 'nfse', else 'XML Fiscal'; it answers nothing
\* else and does not fail.
C22_ClassifyXmlTotalOrdered ==
    [][ClassifiesXml =>
          LET tree == state.processed_data.data
              document_type == state'.classification.document_type
              nfe == tree.root \in {"nfeProc", "NFe"}
              cte == tree.root \in {"cteProc", "CTe"}
          IN  /\ state'.status = "classified"
              /\ state'.errors = state.errors
              /\ state'.classification.present
              /\ document_type \in {"NFe", "CTe", "NFSe", "XML Fiscal"}
              /\ nfe => document_type = "NFe"
              /\ (~nfe /\ cte) => document_type = "CTe"
              /\ (~nfe /\ ~cte /\ tree.nfse) => document_type = "NFSe"
              /\ (~nfe /\ ~cte /\ ~tree.nfse) => document_type = "XML Fiscal"]_vars

\* An NFe whose serialised tree also contains 'nfse' has been classified.
C22_Witness ==
    /\ invoked = <<"process_file", "classify">>
    /\ get_file_type(input.ext) = "xml"
    /\ state.processed_data.data.root \in {"nfeProc", "NFe"}
    /\ state.processed_data.data.nfse
    /\ state.status = "classified"
    /\ state.classification.document_type = "NFe"

\* C24: once classify has written state.classification, the extract and the
\* validate step leave it unchanged, so at the end of the run it is the value
\* the classify step produced.
C24_ClassificationImmutable ==
    [][(pc \in {"extract", "validate"})
          => (state'.classification = state.classification)]_vars

C24_Witness ==
    /\ pc = END
    /\ invoked = NodeOrder
    /\ state.status = "validated"
    /\ state.classification.present
    /\ state.extracted_data.present

\* C30 (as claimed): every run terminates: from any initial status and for
\* any outcome of each node the router reaches END after at most four node
\* invocations, and no node is invoked twice (checked under SpecInvoke).
C30_RunReachesEnd ==
    /\ [](/\ Len(invoked) <= 4
          /\ \A i, j \in 1..Len(invoked) : i # j => invoked[i] # invoked[j])
    /\ (pc = "process_file") ~> (pc = END)

(***************************************************************************)
(* Properties of the queue with background tasks (checked under            *)
(* SpecBackground).                                                        *)
(***************************************************************************)
\* C18 (as claimed): a failed queue item keeps status 'failed' and its
\* error_message in every step, except the step of retry_failed that resets
\* it to pending.
C18_FailedUntilRetry ==
    [][\A i \in DOMAIN queue :
          queue[i].status = "failed" =>
              \/ queue'[i] = queue[i]
              \/ \E b \in BatchIds : queue' = retry_failed(queue, b)]_vars

\* An execution of process_queue_item starts in this step: the worker's, or
\* a background task's.
WorkerStarts == worker.pc = "mark" /\ worker'.pc = "invoke"
TaskStarts == background.pc = "idle" /\ background'.pc = "invoke"

\* C25 (as claimed): between an item becoming pending and its next completed
\* or failed mark at most one execution of process_queue_item runs for it:
\* every execution, of the worker or of a background task, starts on an item
\* that is pending, and no second execution holds it then.
C25_OneExecutionPerPending ==
    [][/\ WorkerStarts => queue[Head(worker.items)].status = "pending"
       /\ TaskStarts => queue[Head(background.tasks)].status = "pending"]_vars

\* C26 (as claimed): one call of start_batch_processing for batch B adds at
\* most one background task per pending item, every item it adds belongs to
\* B, and the number of distinct items it adds is min(pending items of B, 10),
\* the number its response reports.
C26_OneTaskPerPendingItem ==
    [][background'.added > background.added =>
          LET B == background'.batch_id
              scheduled == SubSeq(background'.tasks, Len(background.tasks) + 1,
                                  Len(background'.tasks))
              reported == IF pending_count(B) < TaskLimit THEN pending_count(B)
                          ELSE TaskLimit
          IN  /\ \A j, k \in 1..Len(scheduled) : j # k => scheduled[j] # scheduled[k]
              /\ \A j \in 1..Len(scheduled) : queue[scheduled[j]].batch_id = B
              /\ Cardinality({scheduled[j] : j \in 1..Len(scheduled)}) = reported]_vars

\* The rows of documents saved for queue item i.
DocumentsOf(i) == {d \in DOMAIN documents : documents[d].queue_id = i}

\* C27 (as claimed): once an item is marked completed with a document_id, no
\* later step of the worker, of a background task or of retry_failed changes
\* its status or its document_id, and one document is persisted for it.
C27_CompletedIsAbsorbing ==
    [][\A i \in DOMAIN queue :
          queue[i].status = "completed" =>
              /\ queue'[i].status = "completed"
              /\ queue'[i].document_id = queue[i].document_id
              /\ Cardinality(DocumentsOf(i)) = 1]_vars

(***************************************************************************)
(* Liveness of the queue (checked under SpecQueueLive).                    *)
(***************************************************************************)
\* C29 (as claimed): every queue item marked 'processing' eventually becomes
\* 'completed' or 'failed' while the worker keeps running, also when saving
\* the document or writing the status update raises.
C29_ProcessingEnds ==
    \A i \in 1..MaxItems :
        (i \in DOMAIN queue /\ queue[i].status = "processing")
            ~> (i \in DOMAIN queue /\ queue[i].status \in {"completed", "failed"})

(***************************************************************************)
(* Properties of validate_nfe_key (checked under SpecValidator).           *)
(***************************************************************************)
\* The check digit as the claim states it: the digit at distance p from the
\* right end of the base has weight 2 + (p mod 8).
RECURSIVE WeightedSum(_, _)
WeightedSum(base, p) ==
    IF p >= Len(base) THEN 0
    ELSE base[Len(base) - p] * (2 + (p % 8)) + WeightedSum(base, p + 1)

CheckDigit(base) ==
    LET r == WeightedSum(base, 0) % 11
    IN  IF r \in {0, 1} THEN 0 ELSE 11 - r

WellFormed(k) ==
    /\ Len(k) = KeyLength
    /\ k[KeyLength] = CheckDigit(SubSeq(k, 1, KeyLength - 1))

\* C20 (as claimed): validate_nfe_key accepts a key exactly when it consists
\* of exactly 44 digits and its last digit is the check digit of the first
\* 43.
C20_AcceptsExactly44Digits ==
    verdict.checked =>
        (verdict.accepted <=> ((\A p \in 1..Len(key) : IsDigit(key[p])) /\ WellFormed(key)))

\* C20 (amended): validate_nfe_key accepts a key exactly when its digits,
\* every other character removed, are 44 with the last one the check digit
\* of the first 43; changing only the last digit of an accepted key, or
\* truncating it to 43 digits, makes it rejected.
C20_AcceptsDigitsOfKey ==
    verdict.checked =>
        LET digits == SelectSeq(key, IsDigit)
        IN  /\ verdict.accepted <=> WellFormed(digits)
            /\ verdict.accepted =>
                   /\ \A d \in 0..9 :
                          d # digits[KeyLength]
                              => ~validate_nfe_key([digits EXCEPT ![KeyLength] = d])
                   /\ ~validate_nfe_key(SubSeq(digits, 1, KeyLength - 1))

\* An accepted key that is not 44 digits: 44 digits and one other character.
C20_Witness ==
    /\ verdict.checked
    /\ verdict.accepted
    /\ Len(key) = KeyLength + 1
    /\ \E p \in 1..Len(key) : ~IsDigit(key[p])

(***************************************************************************)
(* Properties of the item check (checked under SpecItems).                 *)
(***************************************************************************)
Warned(i) ==
    \E w \in 1..Len(item_check.warnings) :
        item_check.warnings[w] = [item |-> i, kind |-> "divergencia no calculo"]

\* |quantity * unit price - line total| > 0.5% of the line total, on the
\* decimal values of the document (in hundredths, times 1000).
OutsideTolerance(item) ==
    LET d == item.quantidade * item.valor_unitario - item.valor_total
    IN  (IF d < 0 THEN 0 - d ELSE d) * 1000 > item.valor_total * 5

\* C21 (as claimed): for an item with quantity > 0 and unit price > 0 the
\* divergence warning, naming the item's 1-based position, is added exactly
\* when |quantity * unit price - line total| is strictly greater than 0.5%
\* of the line total.
C21_ToleranceBoundary ==
    item_check.checked =>
        \A i \in 1..Len(itens) :
            (itens[i].quantidade > 0 /\ itens[i].valor_unitario > 0)
                => (Warned(i) <=> OutsideTolerance(itens[i]))

(***************************************************************************)
(* Properties of the aggregate analysis (checked under SpecAnalysis).      *)
(***************************************************************************)
Insight(message) ==
    \E i \in 1..Len(report.insights) : report.insights[i] = message

\* tax_total / total_value of the record set is strictly greater than
\* percent %
BurdenAbove(percent) ==
    /\ sum_of(records, "total_value") > 0
    /\ sum_of(records, "tax_total") * 100 > percent * sum_of(records, "total_value")

\* C23 (as claimed): the insights of the analysis of a record set include the
\* above-30% tax-burden message exactly when tax_total/total_value is
\* strictly greater than 30%, and the above-40% message exactly when it is
\* strictly greater than 40%.
C23_BurdenThresholds ==
    (report.analysed /\ records # <<>>) =>
        /\ Insight("Carga tributaria acima de 30%") <=> BurdenAbove(30)
        /\ Insight("Carga tributaria muito alta (>40%)") <=> BurdenAbove(40)

====
